---- MODULE Spec2Model ----
(***************************************************************************)
(* Verification model of the JLCPCB parts-catalog subsystem of the KiCAD   *)
(* MCP server:                                                             *)
(*   - the sync job orchestrator of KiCADInterface                         *)
(*     (python/kicad_interface.py, _handle_download_jlcpcb_database and    *)
(*     _handle_get_jlcpcb_download_status), specification Spec / LiveSpec; *)
(*   - the search of the local parts store                                 *)
(*     (python/commands/jlcpcb_parts.py, search_parts), SearchSpec;        *)
(*   - the incremental download planner                                    *)
(*     (python/commands/jlcpcb.py, _plan_incremental_download), PlanSpec.  *)
(*                                                                         *)
(* Conventions.  Python None is the string "None" for text fields and 0    *)
(* for time stamps (time.time() is modelled by a clock that starts at 1).  *)
(* The commands of the interface are read one line at a time from stdin by *)
(* main(), so request handlers never overlap each other; the only other    *)
(* thread is the background download worker.                               *)
(*                                                                         *)
(* Environment faults are the ones of the error taxonomy of the sync       *)
(* pipeline: the download (network, disk space, archive integrity,         *)
(* extraction), the ingestion and the write of the catalog metadata that   *)
(* follows a completed public run may raise; the reads of the catalog      *)
(* statistics and the local estimate are taken to succeed.                 *)
(***************************************************************************)
EXTENDS Integers, Sequences, FiniteSets, TLC

\* Largest value of the clock that models time.time().
MaxClock == 2
\* Largest number of background worker threads created in one behaviour.
MaxThreads == 2

VARIABLES
    jlcpcb_download_status,      \* self.jlcpcb_download_status (shared dict)
    jlcpcb_download_thread,      \* self.jlcpcb_download_thread: 0 (None) or index into threads
    jlcpcb_download_last_result, \* self.jlcpcb_download_last_result
    threads,                     \* every worker thread created so far, with its position
    main,                        \* the handler invocation running in the main (stdin) thread
    response,                    \* the result returned by the request served in the last step
    clock,                       \* time.time()
    has_official_creds,          \* all three JLCPCB_* environment variables are set
    has_existing_db,             \* os.path.exists(db_path) and os.path.getsize(db_path) > 0
    entry_last_success,          \* lastSuccess as it was when the current/last run was started
    components,                  \* rows of table components, in rowid order
    search_call,                 \* the last search_parts call: its arguments and the list it returned
    plan,                        \* state of one _plan_incremental_download call
    cache_dir,                   \* the archive cache directory: part files, manifest, manifest.tmp
    dl,                          \* state of one public-snapshot run around download_yaqwsx_cache
    catalog,                     \* table components and its indexes as seen through self.conn
    ingest,                      \* state of one run of the handler that ingests into the catalog
    imp,                         \* catalog content, watermark and the last import_yaqwsx_cache call
    alt,                         \* one suggest_alternatives call: catalog, reference key, result
    req,                         \* the vendor API client: its credentials and its requests
    est,                         \* a cache directory and the last estimate_yaqwsx_update call on it
    reader,                      \* the last read of the catalog by the caller's thread
    sch                          \* a schematic file and the last auto_layout call on it

orch_vars == <<jlcpcb_download_status, jlcpcb_download_thread, jlcpcb_download_last_result,
               threads, main, response, clock, has_official_creds, has_existing_db,
               entry_last_success>>
search_vars == <<components, search_call>>
plan_vars == <<plan>>
dl_vars == <<cache_dir, dl>>
store_vars == <<catalog, ingest>>
rest_vars == <<imp, alt, req, est, reader, sch>>
vars == <<orch_vars, search_vars, plan_vars, dl_vars, store_vars, rest_vars>>

(***************************************************************************)
(* Local parts store: table components and search_parts                    *)
(***************************************************************************)

\* Largest number of rows of table components.
MaxRows == 3
\* Largest value of the limit argument of search_parts.
MaxLimit == 3

\* Text columns are sequences of characters, so that LIKE is computed.
Resistors == <<"R", "e", "s">>
Capacitors == <<"C", "a", "p">>
Pkg0603 == <<"0", "6", "0", "3">>
Pkg0805 == <<"0", "8", "0", "5">>

\* The rows an insert may carry: the three rows of the basic-first test, a second
\* version of C_BAS (out of stock, other category, package and manufacturer), an
\* out-of-stock Preferred row and an Extended capacitor.
RowPool ==
    { [lcsc |-> "C_EXT", category |-> Resistors, package |-> Pkg0603,
       manufacturer |-> <<"X">>, library_type |-> "Extended", stock |-> 100],
      [lcsc |-> "C_BAS", category |-> Resistors, package |-> Pkg0603,
       manufacturer |-> <<"X">>, library_type |-> "Basic", stock |-> 100],
      [lcsc |-> "C_PREF", category |-> Resistors, package |-> Pkg0603,
       manufacturer |-> <<"X">>, library_type |-> "Preferred", stock |-> 100],
      [lcsc |-> "C_BAS", category |-> Capacitors, package |-> Pkg0805,
       manufacturer |-> <<"Y">>, library_type |-> "Basic", stock |-> 0],
      [lcsc |-> "C_PREF2", category |-> Resistors, package |-> Pkg0603,
       manufacturer |-> <<"X">>, library_type |-> "Preferred", stock |-> 0],
      [lcsc |-> "C_EXT2", category |-> Capacitors, package |-> Pkg0603,
       manufacturer |-> <<"X">>, library_type |-> "Extended", stock |-> 100] }

\* Arguments of search_parts.  The empty sequence and "" are the falsy values
\* (None or an empty string) for which the method adds no filter.
CategoryArgs == {<<>>, Resistors, <<"E", "S">>, Capacitors}
PackageArgs == {<<>>, <<"6", "0">>}
ManufacturerArgs == {<<>>, <<"x">>}
LibraryTypeArgs == {"", "Basic", "Preferred", "Extended"}

\* ASCII case folding of LIKE.
Fold(c) ==
    CASE c = "e" -> "E" [] c = "s" -> "S" [] c = "a" -> "A" [] c = "p" -> "P"
      [] c = "x" -> "X" [] c = "y" -> "Y" [] OTHER -> c

\* text LIKE '%' || sub || '%'
Like(text, sub) ==
    \E i \in 0..(Len(text) - Len(sub)) :
        \A j \in 1..Len(sub) : Fold(text[i + j]) = Fold(sub[j])

\* Variant: the WHERE clause without the library_type condition.
MatchesFiltersIgnoringTier(row, args) ==
    /\ args.category # <<>> => Like(row.category, args.category)
    /\ args.package # <<>> => Like(row.package, args.package)
    /\ args.manufacturer # <<>> => Like(row.manufacturer, args.manufacturer)
    /\ args.in_stock => row.stock > 0

\* The WHERE clause search_parts builds from its arguments (no free-text query).
MatchesFilters(row, args) ==
    /\ args.category # <<>> => Like(row.category, args.category)
    /\ args.package # <<>> => Like(row.package, args.package)
    /\ args.library_type # "" => row.library_type = args.library_type
    /\ args.manufacturer # <<>> => Like(row.manufacturer, args.manufacturer)
    /\ args.in_stock => row.stock > 0

RECURSIVE SelectWhere(_, _)
\* SELECT * FROM components WHERE ...: a scan of the table in rowid order (the
\* statement has no ORDER BY, and SQLite answers it with a table scan).
SelectWhere(rows, args) ==
    IF rows = <<>> THEN <<>>
    ELSE IF MatchesFilters(Head(rows), args)
         THEN <<Head(rows)>> \o SelectWhere(Tail(rows), args)
         ELSE SelectWhere(Tail(rows), args)

\* ... LIMIT ?
Limit(rows, n) == SubSeq(rows, 1, IF n < Len(rows) THEN n ELSE Len(rows))

search_parts(rows, args) == Limit(SelectWhere(rows, args), args.limit)

\* INSERT OR REPLACE INTO components: a row with the same lcsc is deleted and the
\* new row gets a fresh rowid, that is, goes to the end of the scan order.
InsertOrReplace(rows, row) ==
    SelectSeq(rows, LAMBDA r : r.lcsc # row.lcsc) \o <<row>>

NoSearch ==
    [called |-> FALSE,
     args |-> [category |-> <<>>, package |-> <<>>, library_type |-> "",
               manufacturer |-> <<>>, in_stock |-> TRUE, limit |-> 0],
     result |-> <<>>]

SearchIdle == components = <<>> /\ search_call = NoSearch

(***************************************************************************)
(* Incremental download planner                                            *)
(***************************************************************************)

\* Largest number of archive parts (the last one is always cache.zip).
MaxParts == 2
\* Largest size in bytes of a remote or local archive part.
MaxSize == 2

\* Names of the numbered archive parts, in the order they are discovered.
NumberedParts == <<"cache.z01", "cache.z02", "cache.z03", "cache.z04">>

\* The archive part list of an archive of n parts.
ArchiveParts(n) == SubSeq(NumberedParts, 1, n - 1) \o <<"cache.zip">>

\* ETag values as sequences of characters (<<>> is None or a missing header):
\* "a" quoted, the weak form W/"a", "b" quoted, "a" with surrounding blanks, and an
\* empty quoted tag.
EtagValues ==
    { <<>>,
      <<"\"", "a", "\"">>,
      <<"W", "/", "\"", "a", "\"">>,
      <<"\"", "b", "\"">>,
      <<" ", "\"", "a", "\"", " ">>,
      <<"\"", "\"">> }

\* Last-Modified values (<<>> is None): two dates, and the first with a blank.
LastModifiedValues == { <<>>, <<"Mon">>, <<"Tue">>, <<"Mon", " ">> }

RECURSIVE LStrip(_, _)
\* s without its leading characters that belong to chars.
LStrip(s, chars) ==
    IF s # <<>> /\ Head(s) \in chars THEN LStrip(Tail(s), chars) ELSE s

RECURSIVE RStrip(_, _)
\* s without its trailing characters that belong to chars.
RStrip(s, chars) ==
    IF s # <<>> /\ s[Len(s)] \in chars
    THEN RStrip(SubSeq(s, 1, Len(s) - 1), chars) ELSE s

\* str.strip() and str.strip('"')
StripOf(s, chars) == RStrip(LStrip(s, chars), chars)

\* JLCPCBClient._normalize_etag
NormalizeEtag(value) ==
    IF value = <<>> THEN <<>>
    ELSE LET normalized == StripOf(value, {" "})
             unweak == IF Len(normalized) >= 2 /\ SubSeq(normalized, 1, 2) = <<"W", "/">>
                       THEN SubSeq(normalized, 3, Len(normalized))
                       ELSE normalized
         IN StripOf(unweak, {"\""})

\* The comparison values the planner derives for one part.  remote_file and
\* previous are the entries of remote_meta and of the manifest's files for the
\* part; local_size is -1 when the part is not on disk.
PartSignals(remote_file, previous, local_size) ==
    LET local_exists == local_size # -1
        prev_etag == NormalizeEtag(previous.etag)
        remote_etag == NormalizeEtag(remote_file.etag)
        prev_last_modified == StripOf(previous.lastModified, {" "})
        remote_last_modified == StripOf(remote_file.lastModified, {" "})
    IN [local_exists |-> local_exists,
        same_size |-> local_exists /\ local_size = remote_file.size,
        prev_etag |-> prev_etag,
        remote_etag |-> remote_etag,
        same_etag |-> prev_etag # <<>> /\ remote_etag # <<>> /\ prev_etag = remote_etag,
        prev_last_modified |-> prev_last_modified,
        remote_last_modified |-> remote_last_modified,
        same_last_modified |-> /\ prev_last_modified # <<>>
                               /\ remote_last_modified # <<>>
                               /\ prev_last_modified = remote_last_modified]

\* Variant: the sizes are compared before the change-tag and last-modified values.
ShouldRedownloadSizeFirst(g) ==
    IF ~g.local_exists THEN TRUE
    ELSE IF ~g.same_size THEN TRUE
    ELSE IF g.same_etag \/ g.same_last_modified THEN FALSE
    ELSE IF g.remote_etag # <<>> /\ g.prev_etag # <<>> THEN ~g.same_etag
    ELSE IF g.remote_last_modified # <<>> /\ g.prev_last_modified # <<>>
         THEN ~g.same_last_modified
    ELSE FALSE

\* Variant: equal sizes always mean reuse.
ShouldRedownloadSameSizeReuses(g) ==
    IF ~g.local_exists THEN TRUE
    ELSE IF g.same_etag \/ g.same_last_modified THEN FALSE
    ELSE IF ~g.same_size THEN TRUE
    ELSE FALSE

\* Variant: differing sizes count only when the remote carries a signal.
ShouldRedownloadNeedsSignal(g) ==
    IF ~g.local_exists THEN TRUE
    ELSE IF g.same_etag \/ g.same_last_modified THEN FALSE
    ELSE IF ~g.same_size /\ (g.remote_etag # <<>> \/ g.remote_last_modified # <<>>)
         THEN TRUE
    ELSE IF g.same_size /\ g.remote_etag # <<>> /\ g.prev_etag # <<>> THEN ~g.same_etag
    ELSE IF g.same_size /\ g.remote_last_modified # <<>> /\ g.prev_last_modified # <<>>
         THEN ~g.same_last_modified
    ELSE FALSE

\* The if/elif chain that decides should_redownload.
ShouldRedownload(g) ==
    IF ~g.local_exists THEN TRUE
    ELSE IF g.same_etag \/ g.same_last_modified THEN FALSE
    ELSE IF ~g.same_size /\ (g.remote_etag # <<>> \/ g.remote_last_modified # <<>>)
         THEN TRUE
    ELSE IF ~g.same_size THEN TRUE
    ELSE IF g.remote_etag # <<>> /\ g.prev_etag # <<>> THEN ~g.same_etag
    ELSE IF g.remote_last_modified # <<>> /\ g.prev_last_modified # <<>>
         THEN ~g.same_last_modified
    ELSE FALSE

\* Variant: the total grows by the remote size of every part.
PlanPartResultCountsEveryPart(p, filename, remote_file, previous, local_size) ==
    LET redownload == ShouldRedownload(PartSignals(remote_file, previous, local_size))
    IN [p EXCEPT
          !.done = p.done + 1,
          !.filename = filename,
          !.remote_file = remote_file,
          !.previous = previous,
          !.local_size = local_size,
          !.remote_sizes = Append(p.remote_sizes, remote_file.size),
          !.partsToDownload = IF redownload THEN Append(p.partsToDownload, filename)
                              ELSE p.partsToDownload,
          !.totalDownloadBytes = p.totalDownloadBytes + remote_file.size,
          !.reusedParts = IF redownload THEN p.reusedParts
                          ELSE Append(p.reusedParts, filename)]

\* One iteration of the loop over archive_parts: the part goes to one of the two
\* lists, and the total grows by the remote size of a part to download.
PlanPartResult(p, filename, remote_file, previous, local_size) ==
    LET redownload == ShouldRedownload(PartSignals(remote_file, previous, local_size))
    IN [p EXCEPT
          !.done = p.done + 1,
          !.filename = filename,
          !.remote_file = remote_file,
          !.previous = previous,
          !.local_size = local_size,
          !.remote_sizes = Append(p.remote_sizes, remote_file.size),
          !.partsToDownload = IF redownload THEN Append(p.partsToDownload, filename)
                              ELSE p.partsToDownload,
          !.totalDownloadBytes = IF redownload
                                 THEN p.totalDownloadBytes + remote_file.size
                                 ELSE p.totalDownloadBytes,
          !.reusedParts = IF redownload THEN p.reusedParts
                          ELSE Append(p.reusedParts, filename)]

NoFile == [size |-> 0, etag |-> <<>>, lastModified |-> <<>>]

\* No planner call is in progress.
PlanIdleState ==
    [pc |-> "idle", archive_parts |-> <<>>, done |-> 0, filename |-> "None",
     remote_file |-> NoFile, previous |-> NoFile, local_size |-> -1,
     remote_sizes |-> <<>>, partsToDownload |-> <<>>, reusedParts |-> <<>>,
     totalDownloadBytes |-> 0]

PlanIdle == plan = PlanIdleState

(***************************************************************************)
(* Archive cache directory and download_yaqwsx_cache                       *)
(***************************************************************************)

\* 1024 * 1024
MiB == 1048576

\* Largest number of public-snapshot runs in one behaviour.
MaxDlRuns == 3

ManifestPath == "cache_manifest.json"

\* Variant: the manifest is written in place.
ManifestTmpPathInPlace(manifest_path) == manifest_path

\* tmp_path = f"{manifest_path}.tmp"
ManifestTmpPath(manifest_path) == manifest_path \o ".tmp"

\* The remote archive: the numbered part cache.z01 and the final part cache.zip.
DlRemoteParts == ArchiveParts(2)

\* What a HEAD request can report for a part: Content-Length, ETag, Last-Modified.
DlRemotePool ==
    { [size |-> MiB, etag |-> <<"\"", "a", "\"">>, lastModified |-> <<>>],
      [size |-> 2 * MiB, etag |-> <<"W", "/", "\"", "a", "\"">>, lastModified |-> <<>>],
      [size |-> 2 * MiB, etag |-> <<"\"", "b", "\"">>, lastModified |-> <<"Tue">>] }

\* "created" of index.json: 0 when the request fails or the field is missing.
DlCreatedValues == {0, 1}

\* shutil.disk_usage(...).free
DlFreeValues == {MiB \div 2, 16 * MiB}

\* A file that does not exist / a file whose JSON text is incomplete.
NoDocument == [state |-> "absent", createdAt |-> 0, files |-> <<>>]
PartialDocument == [state |-> "partial", createdAt |-> 0, files |-> <<>>]

\* _load_manifest: the parsed object, {} for a missing or unreadable file.
LoadManifest(dir) ==
    IF dir.docs[ManifestPath].state = "valid" THEN dir.docs[ManifestPath] ELSE NoDocument

\* existing_manifest.get("files", {})
PreviousFiles(dir) == LoadManifest(dir).files

\* previous_files.get(filename, {})
PreviousOf(previous_files, filename) ==
    IF filename \in DOMAIN previous_files THEN previous_files[filename] ELSE NoFile

\* round(x, 1) of x = num / den, in tenths: to nearest, ties to the even tenth.
RoundTenths(num, den) ==
    LET q == (10 * num) \div den
        r == (10 * num) % den
    IN IF 2 * r > den \/ (2 * r = den /\ q % 2 = 1) THEN q + 1 ELSE q

\* round(bytes / (1024 * 1024), 1), in tenths of a megabyte.
TenthsOfMB(bytes) == RoundTenths(bytes, MiB)

\* int(float(estimate["estimatedDatabaseSizeMB"]) * 1024 * 1024), where
\* estimatedDatabaseSizeMB = round(round(total_bytes / MiB, 1) * 1.8, 1).
EstimatedDbBytes(total_bytes) ==
    (RoundTenths(18 * TenthsOfMB(total_bytes), 100) * MiB) \div 10

RECURSIVE SumSizes(_, _)
SumSizes(parts, meta) ==
    IF parts = <<>> THEN 0 ELSE meta[Head(parts)].size + SumSizes(Tail(parts), meta)

\* should_redownload of one part, from the probed metadata, the manifest entry
\* and the file on disk.
DlShouldRedownload(filename, remote_meta, previous_files, files) ==
    ShouldRedownload(PartSignals(remote_meta[filename],
                                 PreviousOf(previous_files, filename), files[filename]))

\* plan["partsToDownload"] and plan["reusedParts"] of _plan_incremental_download.
DlPartsToDownload(parts, remote_meta, previous_files, files) ==
    SelectSeq(parts, LAMBDA f : DlShouldRedownload(f, remote_meta, previous_files, files))
DlReusedParts(parts, remote_meta, previous_files, files) ==
    SelectSeq(parts, LAMBDA f : ~DlShouldRedownload(f, remote_meta, previous_files, files))

SeqToSet(seq) == {seq[k] : k \in 1..Len(seq)}

\* Variant: estimate_yaqwsx_update without the index.json shortcut.
IndexUnchangedNever(dir, created) == FALSE

\* The condition of the index.json shortcut of estimate_yaqwsx_update.
IndexUnchanged(dir, created) ==
    /\ created # 0
    /\ LoadManifest(dir).createdAt = created
    /\ DOMAIN PreviousFiles(dir) # {}
    /\ \A f \in DOMAIN PreviousFiles(dir) : dir.files[f] # -1

\* final_manifest
FinalManifest(d) ==
    [state |-> "valid", createdAt |-> d.created,
     files |-> [f \in SeqToSet(d.archive_parts) |-> d.remote_meta[f]]]

NoError == [kind |-> "none", required |-> 0, available |-> 0]

\* No run in progress, before the first run.
DlIdleState ==
    [pc |-> "idle", runs |-> 0, probe_error |-> FALSE, archive_parts |-> <<>>,
     remote_meta |-> <<>>, created |-> 0, estimated_total |-> 0,
     existing_manifest |-> NoDocument, parts_to_download |-> <<>>,
     reused_parts |-> <<>>, total_download_bytes |-> 0, index |-> 0,
     free_download |-> 0, free_extract |-> 0, error |-> NoError, no_update |-> FALSE,
     ingested |-> FALSE]

\* The cache directory as os.makedirs leaves it the first time.
DlIdle ==
    /\ dl = DlIdleState
    /\ cache_dir = [files |-> [f \in SeqToSet(DlRemoteParts) |-> -1],
                    docs |-> [path \in {ManifestPath, ManifestTmpPath(ManifestPath)}
                                |-> NoDocument]]

(***************************************************************************)
(* Local parts store: transactions of import_parts and import_yaqwsx_cache *)
(***************************************************************************)

\* Largest number of ingesting runs in one behaviour.
MaxIngestRuns == 2

\* Part numbers (lcsc) of the remote catalogs.
Lcsc == {1, 2}

\* The pages of the official API, one part per page, and the rows of a public
\* snapshot, one row per batch.
OfficialPages == <<1, 2>>
SnapshotRows == {<<1, 2>>, <<2>>}

\* idx_category, idx_package, idx_manufacturer, idx_library_type, idx_mfr_part
ComponentIndexes == {"idx_category", "idx_package", "idx_manufacturer",
                     "idx_library_type", "idx_mfr_part"}

\* A content of the database file: rows[l] is 0 when part l has no row, else
\* the number of the run that wrote the row.
EmptyDb == [rows |-> [l \in Lcsc |-> 0], indexes |-> ComponentIndexes]

\* _init_database: the committed content, the content self.conn reads (it
\* includes the changes of its open transaction), and conn.in_transaction.
CatalogInit == [committed |-> EmptyDb, working |-> EmptyDb, in_transaction |-> FALSE]

IngestIdleState ==
    [pc |-> "idle", runs |-> 0, source |-> "None", full |-> FALSE, parts |-> <<>>,
     rows |-> <<>>, index |-> 0, before |-> CatalogInit, outcome |-> "none",
     download_error |-> FALSE, row_error |-> FALSE]

StoreIdle == catalog = CatalogInit /\ ingest = IngestIdleState

\* INSERT OR REPLACE of one row on self.conn: sqlite3 opens a transaction first
\* when none is open.
ExecuteInsertOrReplace(c, l, version) ==
    [c EXCEPT !.working.rows[l] = version, !.in_transaction = TRUE]

\* self.conn.commit()
Commit(c) == [c EXCEPT !.committed = c.working, !.in_transaction = FALSE]

\* self.conn.rollback()
Rollback(c) == [c EXCEPT !.working = c.committed, !.in_transaction = FALSE]

\* _create_component_indexes and _drop_component_indexes
CreateComponentIndexes(c) == [c EXCEPT !.working.indexes = ComponentIndexes]
DropComponentIndexes(c) ==
    [c EXCEPT !.working.indexes = {}, !.in_transaction = TRUE]

(***************************************************************************)
(* Local parts store: import_yaqwsx_cache and the import watermark         *)
(***************************************************************************)

\* Largest number of imports in one behaviour.
MaxImportRuns == 2
\* Largest number of rows of a source snapshot.
MaxSourceRows == 2

\* None of an Optional[int]: incremental_since, max_last_update, the metadata
\* value yaqwsx_last_update when the key is absent.
NoneInt == -1

\* int(datetime.now().timestamp()) of the first import; later than every
\* last_update of the source rows below.
FirstNow == 10

\* The lcsc column of a source row: an integer or a text, as its digits or
\* characters.
IntLcsc(chars) == [kind |-> "int", chars |-> chars]
StrLcsc(chars) == [kind |-> "str", chars |-> chars]

\* Rows of a source snapshot.  last_update = 0 stands for NULL; stock = 0 is
\* out of stock.
SourceRowPool ==
    { [lcsc |-> IntLcsc(<<"1">>), stock |-> 5, last_update |-> 1],
      [lcsc |-> IntLcsc(<<"1">>), stock |-> 0, last_update |-> 3],
      [lcsc |-> StrLcsc(<<"0", "2">>), stock |-> 5, last_update |-> 2],
      [lcsc |-> IntLcsc(<<"2">>), stock |-> 7, last_update |-> 0],
      [lcsc |-> StrLcsc(<<"C", "3">>), stock |-> 5, last_update |-> 3] }

\* str.isdigit()
IsDigit(c) == c \in {"0", "1", "2", "3", "4", "5", "6", "7", "8", "9"}
IsDigits(chars) == chars # <<>> /\ \A i \in 1..Len(chars) : IsDigit(chars[i])

RECURSIVE IntDigits(_)
\* The decimal digits of int(text): leading zeros are gone.
IntDigits(chars) ==
    IF Len(chars) > 1 /\ Head(chars) = "0" THEN IntDigits(Tail(chars)) ELSE chars

\* lcsc = f"C{int(lcsc_num)}" for an integer or a text of digits, else str(lcsc_num)
LcscKey(raw) ==
    IF raw.kind = "int" \/ IsDigits(raw.chars)
    THEN <<"C">> \o IntDigits(raw.chars)
    ELSE raw.chars

\* The snapshots: up to MaxSourceRows rows in scan order, lcsc being the
\* primary key of the source table.
SourceSnapshots ==
    { src \in UNION { [1..n -> SourceRowPool] : n \in 0..MaxSourceRows } :
        \A i, j \in 1..Len(src) : i # j => LcscKey(src[i].lcsc) # LcscKey(src[j].lcsc) }

\* The tuple appended to batch: the columns of the catalog row.
CatalogRow(row, now_ts) ==
    [lcsc |-> LcscKey(row.lcsc),
     stock |-> row.stock,
     last_updated |-> IF row.last_update # 0 THEN row.last_update ELSE now_ts]

\* Variant: a WHERE clause without the last_update condition.
PassesImportFilterStockOnly(row, in_stock_only, incremental_since) ==
    in_stock_only => row.stock > 0

\* WHERE stock > 0 AND last_update > incremental_since, each condition present
\* only when asked for; NULL > T is not true.
PassesImportFilter(row, in_stock_only, incremental_since) ==
    /\ in_stock_only => row.stock > 0
    /\ incremental_since # NoneInt
         => row.last_update # 0 /\ row.last_update > incremental_since

\* SELECT ... FROM components WHERE ...
FilteredSource(src, in_stock_only, incremental_since) ==
    SelectSeq(src, LAMBDA row : PassesImportFilter(row, in_stock_only, incremental_since))

\* Variant: the maximum taken over the rows that pass the filters.
SourceMaxLastUpdateFiltered(src, in_stock_only, incremental_since) ==
    LET seen == { FilteredSource(src, in_stock_only, incremental_since)[i].last_update :
                    i \in 1..Len(FilteredSource(src, in_stock_only, incremental_since)) }
                \ {0}
    IN IF seen = {} THEN NoneInt ELSE CHOOSE m \in seen : \A x \in seen : x <= m

\* SELECT MAX(last_update) FROM components: over every row of the source table.
SourceMaxLastUpdate(src, in_stock_only, incremental_since) ==
    LET seen == { src[i].last_update : i \in 1..Len(src) } \ {0}
    IN IF seen = {} THEN NoneInt ELSE CHOOSE m \in seen : \A x \in seen : x <= m

\* Variant: executemany that appends without replacing.
ExecuteManyAppending(table, batch) == table \o batch

RECURSIVE ExecuteMany(_, _)
\* cursor.executemany("INSERT OR REPLACE INTO components ...", batch)
ExecuteMany(table, batch) ==
    IF batch = <<>> THEN table
    ELSE ExecuteMany(InsertOrReplace(table, Head(batch)), Tail(batch))

RECURSIVE ExecuteBatches(_, _, _)
\* The loop over the source rows: a batch is written when it holds batch_size
\* rows, and the rest after the loop.
ExecuteBatches(table, rows, batch_size) ==
    IF rows = <<>> THEN table
    ELSE LET n == IF batch_size < Len(rows) THEN batch_size ELSE Len(rows)
         IN ExecuteBatches(ExecuteMany(table, SubSeq(rows, 1, n)),
                           SubSeq(rows, n + 1, Len(rows)), batch_size)

\* The lcsc values of a sequence of catalog rows.
KeysOf(rows) == { rows[i].lcsc : i \in 1..Len(rows) }

RECURSIVE AssignRowids(_, _, _)
\* The rowids of the catalog after INSERT OR REPLACE of the rows of batch: the
\* new row takes the largest rowid of the table plus one, chosen before the row
\* it replaces is deleted.
AssignRowids(table, rowids, batch) ==
    IF batch = <<>> THEN rowids
    ELSE LET row == Head(batch)
             new == IF rowids = <<>> THEN 1 ELSE rowids[Len(rowids)] + 1
             next == ExecuteMany(table, <<row>>)
             pos == { i \in 1..Len(table) : table[i].lcsc = row.lcsc }
             kept == IF Len(next) > Len(table) THEN rowids
                     ELSE LET p == CHOOSE i \in pos : TRUE
                          IN SubSeq(rowids, 1, p - 1) \o SubSeq(rowids, p + 1, Len(rowids))
         IN AssignRowids(next, kept \o <<new>>, Tail(batch))

\* The index entries of the rows of the content table whose key is in keys.
FtsEntriesOf(table, rowids, keys) ==
    { [rowid |-> rowids[i], lcsc |-> table[i].lcsc] :
        i \in { j \in 1..Len(table) : table[j].lcsc \in keys } }

\* INSERT INTO components_fts(components_fts) VALUES('rebuild'): the index is
\* emptied and filled from the content table (content=components).
FtsRebuild(table, rowids) == FtsEntriesOf(table, rowids, KeysOf(table))

\* DELETE FROM components_fts WHERE lcsc IN (SELECT lcsc FROM updated_lcsc): the
\* scan of an external-content table reads the rows of the content table, so
\* the entries deleted are those of the rowids the table holds now.
FtsDeleteUpdated(fts, table, rowids, updated_lcsc) ==
    fts \ FtsEntriesOf(table, rowids, updated_lcsc)

\* INSERT INTO components_fts(rowid, lcsc, ...) SELECT ... FROM components c
\* JOIN updated_lcsc u ON u.lcsc = c.lcsc
FtsInsertUpdated(fts, table, rowids, updated_lcsc) ==
    fts \cup FtsEntriesOf(table, rowids, updated_lcsc)

\* source_max_last_update or incremental_since
EmptyImportWatermark(source_max_last_update, incremental_since) ==
    IF source_max_last_update # NoneInt /\ source_max_last_update # 0
    THEN source_max_last_update
    ELSE incremental_since

\* Variant: the DELETE executed whatever incremental_since is.
StartTableAlwaysDeleted(db, incremental_since) == <<>>

\* if incremental_since is None: cursor.execute("DELETE FROM components")
StartTable(db, incremental_since) ==
    IF incremental_since = NoneInt THEN <<>> ELSE db.table

\* import_yaqwsx_cache without an exception: the database it leaves and the
\* record it returns.  db = [table, rowids, fts, indexes]: rowids[i] is the rowid
\* of table[i], and fts is the set of entries of the full-text index.
ImportYaqwsxCache(db, src, in_stock_only, incremental_since, batch_size, now_ts) ==
    LET filtered == FilteredSource(src, in_stock_only, incremental_since)
        source_max_last_update == SourceMaxLastUpdate(src, in_stock_only, incremental_since)
        batch == [i \in 1..Len(filtered) |-> CatalogRow(filtered[i], now_ts)]
        start == StartTable(db, incremental_since)
        table == ExecuteBatches(start, batch, batch_size)
        rowids == AssignRowids(start, IF incremental_since = NoneInt THEN <<>> ELSE db.rowids,
                               batch)
    IN IF incremental_since # NoneInt /\ Len(filtered) = 0
       THEN [db |-> db, imported |-> 0, total |-> 0,
             max_last_update |-> EmptyImportWatermark(source_max_last_update,
                                                      incremental_since)]
       ELSE [db |-> [table |-> table,
                     rowids |-> rowids,
                     fts |-> IF incremental_since = NoneInt
                             THEN FtsRebuild(table, rowids)
                             ELSE FtsInsertUpdated(
                                      FtsDeleteUpdated(db.fts, table, rowids, KeysOf(batch)),
                                      table, rowids, KeysOf(batch)),
                     indexes |-> ComponentIndexes],
             imported |-> Len(filtered), total |-> Len(filtered),
             max_last_update |-> source_max_last_update]

\* if max_last_update is not None: set_metadata("yaqwsx_last_update", ...)
NextWatermark(watermark, max_last_update) ==
    IF max_last_update # NoneInt THEN max_last_update ELSE watermark

\* incremental_since = int(last_imported) if last_imported else None
IncrementalSince(watermark) == watermark

NoImportCall ==
    [kind |-> "none", src |-> <<>>, in_stock_only |-> FALSE, incremental_since |-> NoneInt,
     batch_size |-> 0, now_ts |-> 0, repeat |-> FALSE,
     before |-> [table |-> <<>>, rowids |-> <<>>, fts |-> {}, indexes |-> ComponentIndexes],
     watermark_before |-> NoneInt, max_last_update |-> NoneInt]

ImpIdleState ==
    [db |-> [table |-> <<>>, rowids |-> <<>>, fts |-> {}, indexes |-> ComponentIndexes],
     watermark |-> NoneInt, now |-> FirstNow, runs |-> 0, call |-> NoImportCall]

ImpIdle == imp = ImpIdleState

(***************************************************************************)
(* Local parts store: suggest_alternatives                                 *)
(***************************************************************************)

\* Largest number of rows of the catalog searched for alternatives.
MaxAltRows == 4
\* Largest value of the limit argument of suggest_alternatives.
MaxAltLimit == 2
\* The price of a part whose price_json gives none.
DefaultPrice == 999

\* Two subcategories of category Resistors; the name of the first is part of
\* the name of the category.  A package whose name contains "0603".
SubRes == <<"R", "e">>
SubArr == <<"A", "r">>
Pkg0603x == <<"0", "6", "0", "3", "x">>

\* Column price_json: a JSON list of price breaks (an entry without the key
\* "price" is NoneInt), or text that json.loads rejects (also NULL).
PriceList(prices) == [kind |-> "list", prices |-> prices]
NotJson == [kind |-> "invalid", prices |-> <<>>]

\* The rows of the catalog: parts of category Resistors whose subcategory name
\* is contained in the category name or not, a part in a package whose name
\* contains "0603", an out-of-stock part, a part without subcategory, and a
\* fourth in-stock part of the first subcategory and package.
AltRowPool ==
    { [lcsc |-> "C1", category |-> Resistors, subcategory |-> SubRes, package |-> Pkg0603,
       library_type |-> "Extended", stock |-> 100, price_json |-> PriceList(<<2, 1>>)],
      [lcsc |-> "C2", category |-> Resistors, subcategory |-> SubRes, package |-> Pkg0603,
       library_type |-> "Basic", stock |-> 50, price_json |-> PriceList(<<3>>)],
      [lcsc |-> "C3", category |-> Resistors, subcategory |-> SubRes, package |-> Pkg0603,
       library_type |-> "Extended", stock |-> 200, price_json |-> PriceList(<<2>>)],
      [lcsc |-> "C4", category |-> Resistors, subcategory |-> SubArr, package |-> Pkg0603,
       library_type |-> "Basic", stock |-> 10, price_json |-> NotJson],
      [lcsc |-> "C5", category |-> Resistors, subcategory |-> SubRes, package |-> Pkg0603x,
       library_type |-> "Extended", stock |-> 5, price_json |-> PriceList(<<>>)],
      [lcsc |-> "C6", category |-> Resistors, subcategory |-> SubRes, package |-> Pkg0603,
       library_type |-> "Basic", stock |-> 0, price_json |-> PriceList(<<1>>)],
      [lcsc |-> "C7", category |-> Capacitors, subcategory |-> <<>>, package |-> Pkg0603,
       library_type |-> "Preferred", stock |-> 7, price_json |-> PriceList(<<NoneInt>>)],
      [lcsc |-> "C8", category |-> Resistors, subcategory |-> SubRes, package |-> Pkg0603,
       library_type |-> "Basic", stock |-> 20, price_json |-> PriceList(<<1>>)] }

AltKeys == { row.lcsc : row \in AltRowPool } \cup {"C9"}

\* get_part_info: SELECT * FROM components WHERE lcsc = ?; <<>> is None.
get_part_info(rows, lcsc_number) ==
    SelectSeq(rows, LAMBDA r : r.lcsc = lcsc_number)

\* float(prices[0].get("price", 999)) if prices else 999; 999 on any exception.
FirstPrice(p) ==
    IF p.price_json.kind # "list" THEN DefaultPrice
    ELSE IF p.price_json.prices = <<>> THEN DefaultPrice
    ELSE IF p.price_json.prices[1] = NoneInt THEN DefaultPrice
    ELSE p.price_json.prices[1]

IsBasic(p) == IF p.library_type = "Basic" THEN 1 ELSE 0

\* Variant: the key with the stock not negated.
sort_key_stock_ascending(p) == <<0 - IsBasic(p), FirstPrice(p), p.stock>>

\* sort_key: (-is_basic, price, -stock)
sort_key(p) == <<0 - IsBasic(p), FirstPrice(p), 0 - p.stock>>

\* Tuple comparison a < b of Python.
TupleLess(a, b) ==
    \E i \in 1..Len(a) :
        /\ a[i] < b[i]
        /\ \A j \in 1..(i - 1) : a[j] = b[j]

RECURSIVE ListSort(_)
\* list.sort(key=sort_key): stable, ascending in the key.
ListSort(rows) ==
    IF rows = <<>> THEN <<>>
    ELSE LET sorted == ListSort(SubSeq(rows, 1, Len(rows) - 1))
             last == rows[Len(rows)]
             n == Cardinality({ i \in 1..Len(sorted) :
                                  ~TupleLess(sort_key(last), sort_key(sorted[i])) })
         IN SubSeq(sorted, 1, n) \o <<last>> \o SubSeq(sorted, n + 1, Len(sorted))

\* suggest_alternatives(lcsc_number, limit)
suggest_alternatives(rows, lcsc_number, limit) ==
    LET found == get_part_info(rows, lcsc_number)
    IN IF found = <<>> THEN <<>>
       ELSE LET part == found[1]
                alternatives ==
                    search_parts(rows, [category |-> part.subcategory,
                                        package |-> part.package,
                                        library_type |-> "", manufacturer |-> <<>>,
                                        in_stock |-> TRUE, limit |-> limit * 3])
                others == SelectSeq(alternatives, LAMBDA p : p.lcsc # lcsc_number)
            IN Limit(ListSort(others), limit)

NoAltCall == [called |-> FALSE, lcsc_number |-> "", limit |-> 0, result |-> <<>>]

AltIdleState == [table |-> <<>>, call |-> NoAltCall]
AltIdle == alt = AltIdleState

(***************************************************************************)
(* Vendor API client: credentials and fetch_parts_page                     *)
(***************************************************************************)

\* Largest number of vendor-API requests.
MaxRequests == 2

NotConfigured == "JLCPCB API credentials not configured"

\* The client self.jlcpcb_client = JLCPCBClient(): each credential is the value
\* of its environment variable; TRUE stands for a non-empty value.
NewClient(app_id, access_key, secret_key) ==
    [app_id |-> app_id, access_key |-> access_key, secret_key |-> secret_key,
     requests |-> 0, network_calls |-> 0, error |-> "None", result |-> "None"]

\* all([os.getenv("JLCPCB_APP_ID"), os.getenv("JLCPCB_API_KEY"),
\*      os.getenv("JLCPCB_API_SECRET")])
AllCredentials(client) == client.app_id /\ client.access_key /\ client.secret_key

\* Variant: only the app id is tested.
CredentialsMissingAppIdOnly(client) == ~client.app_id

\* if not self.app_id or not self.access_key or not self.secret_key
CredentialsMissing(client) ==
    ~client.app_id \/ ~client.access_key \/ ~client.secret_key

\* What requests.post and the checks of the response can give.
PostOutcomes == {"data", "JLCPCB API request failed", "API request failed"}

ReqIdleState == NewClient(has_official_creds, has_official_creds, has_official_creds)
ReqIdle == req = ReqIdleState

(***************************************************************************)
(* Vendor API client: estimate_yaqwsx_update                               *)
(***************************************************************************)

YAQWSX_DEFAULT_DOWNLOAD_MB == 950
YAQWSX_ESTIMATED_TOTAL_PARTS == 7000000
YAQWSX_ESTIMATED_IN_STOCK_PARTS == 650000
YAQWSX_ESTIMATED_BASIC_PARTS == 350

TargetDir == "yaqwsx_archive_cache"

\* _estimate_minutes(total_bytes, mbps), in tenths of a minute:
\* round(total_bytes * 8 / (mbps * 1000000) / 60, 1).
EstimateMinutes(total_bytes, mbps) ==
    IF total_bytes <= 0 THEN 0
    ELSE LET den == mbps * 750000
             q == total_bytes \div den
             r == total_bytes % den
         IN IF 2 * r > den \/ (2 * r = den /\ q % 2 = 1) THEN q + 1 ELSE q

TimeMinutes(total_bytes, note) ==
    [min |-> EstimateMinutes(total_bytes, 100), max |-> EstimateMinutes(total_bytes, 20),
     note |-> note]

EstimatedPartCount ==
    [min |-> 6500000, max |-> 7500000,
     note |-> "Recent public snapshots are typically around 7 million parts; exact count depends on upstream build."]

\* list(previous_files.keys())
PartsListed(previous_files) ==
    SelectSeq(DlRemoteParts, LAMBDA f : f \in DOMAIN previous_files)

\* Variant: an assignment to a key the dict does not have is dropped.
SetItemExistingOnly(d, key, value) ==
    [k \in DOMAIN d |-> IF k = key THEN value ELSE d[k]]

\* d[key] = value
SetItem(d, key, value) ==
    [k \in DOMAIN d \cup {key} |-> IF k = key THEN value ELSE d[k]]

\* The record of estimate_yaqwsx_download; sizes in MB are in tenths.
EstimateYaqwsxDownload(archive_parts, remote_meta, created_at) ==
    LET total_bytes == SumSizes(archive_parts, remote_meta)
    IN [source |-> "yaqwsx",
        createdFrom |-> "https://github.com/yaqwsx/jlcparts",
        createdAt |-> created_at,
        downloadFiles |-> [f \in SeqToSet(archive_parts) |-> remote_meta[f].size],
        archiveParts |-> archive_parts,
        downloadSizeBytes |-> total_bytes,
        downloadSizeMB |-> TenthsOfMB(total_bytes),
        estimatedDatabaseSizeMB |-> RoundTenths(18 * TenthsOfMB(total_bytes), 100),
        estimatedDownloadTimeMinutes |->
            TimeMinutes(total_bytes, "Estimated for ~100 Mbps to ~20 Mbps network speed."),
        estimatedPartCount |-> EstimatedPartCount,
        estimatedInStockParts |-> YAQWSX_ESTIMATED_IN_STOCK_PARTS,
        estimatedBasicParts |-> YAQWSX_ESTIMATED_BASIC_PARTS,
        estimatedExtendedParts |->
            YAQWSX_ESTIMATED_TOTAL_PARTS - YAQWSX_ESTIMATED_BASIC_PARTS]

\* The record the two early returns of estimate_yaqwsx_update build.
QuickEstimate(created_at, archive_parts, total_bytes, total_mb, update) ==
    [source |-> "yaqwsx",
     createdFrom |-> "https://github.com/yaqwsx/jlcparts",
     createdAt |-> created_at,
     downloadFiles |-> <<>>,
     archiveParts |-> archive_parts,
     downloadSizeBytes |-> total_bytes,
     downloadSizeMB |-> total_mb,
     estimatedDatabaseSizeMB |-> RoundTenths(18 * total_mb, 100),
     estimatedDownloadTimeMinutes |->
         TimeMinutes(total_bytes, "Estimated for full archive size."),
     estimatedPartCount |-> EstimatedPartCount,
     estimatedInStockParts |-> YAQWSX_ESTIMATED_IN_STOCK_PARTS,
     estimatedBasicParts |-> YAQWSX_ESTIMATED_BASIC_PARTS,
     estimatedExtendedParts |->
         YAQWSX_ESTIMATED_TOTAL_PARTS - YAQWSX_ESTIMATED_BASIC_PARTS,
     cacheDirectory |-> TargetDir,
     cacheManifestPath |-> ManifestPath,
     estimatedUpdateDownloadBytes |-> update.bytes,
     estimatedUpdateDownloadMB |-> update.mb,
     changedArchiveParts |-> update.changed,
     reusedArchiveParts |-> Len(archive_parts),
     isInitialArchiveDownload |-> update.initial,
     estimatedUpdateTimeMinutes |-> update.minutes]

\* estimate_yaqwsx_update(target_dir, include_remote_check=False)
CachedEstimate(dir) ==
    LET previous_files == PreviousFiles(dir)
        known_total_bytes == SumSizes(PartsListed(previous_files), previous_files)
        archive_parts == IF known_total_bytes > 0 THEN PartsListed(previous_files) ELSE <<>>
        total_mb == IF known_total_bytes > 0 THEN TenthsOfMB(known_total_bytes)
                    ELSE 10 * YAQWSX_DEFAULT_DOWNLOAD_MB
        total_bytes == IF known_total_bytes > 0 THEN known_total_bytes
                       ELSE YAQWSX_DEFAULT_DOWNLOAD_MB * MiB
    IN QuickEstimate(LoadManifest(dir).createdAt, archive_parts, total_bytes, total_mb,
                     [bytes |-> total_bytes, mb |-> total_mb, changed |-> NoneInt,
                      initial |-> Len(archive_parts) = 0,
                      minutes |-> TimeMinutes(total_bytes,
                        "Quick estimate; exact changed files are computed when download starts.")])

\* The return of the index.json shortcut.
UnchangedEstimate(dir, remote_created_at) ==
    LET previous_files == PreviousFiles(dir)
        archive_parts == PartsListed(previous_files)
        known_total_bytes == SumSizes(archive_parts, previous_files)
    IN QuickEstimate(remote_created_at, archive_parts, known_total_bytes,
                     TenthsOfMB(known_total_bytes),
                     [bytes |-> 0, mb |-> 0, changed |-> 0, initial |-> FALSE,
                      minutes |-> [min |-> 0, max |-> 0,
                         note |-> "No archive updates detected from index timestamp."]])

\* The path through estimate_yaqwsx_download, the probe and the plan.
FreshEstimate(dir, archive_parts, remote_meta, created_at) ==
    LET base_estimate == EstimateYaqwsxDownload(archive_parts, remote_meta, created_at)
        parts_to_download == DlPartsToDownload(archive_parts, remote_meta,
                                               PreviousFiles(dir), dir.files)
        reused_parts == DlReusedParts(archive_parts, remote_meta,
                                      PreviousFiles(dir), dir.files)
        update_bytes == SumSizes(parts_to_download, remote_meta)
        e1 == SetItem(base_estimate, "cacheDirectory", TargetDir)
        e2 == SetItem(e1, "cacheManifestPath", ManifestPath)
        e3 == SetItem(e2, "estimatedUpdateDownloadBytes", update_bytes)
        e4 == SetItem(e3, "estimatedUpdateDownloadMB", TenthsOfMB(update_bytes))
        e5 == SetItem(e4, "changedArchiveParts", Len(parts_to_download))
        e6 == SetItem(e5, "reusedArchiveParts", Len(reused_parts))
        e7 == SetItem(e6, "isInitialArchiveDownload", Len(reused_parts) = 0)
    IN SetItem(e7, "estimatedUpdateTimeMinutes",
               TimeMinutes(update_bytes, "Estimated for changed/new archive parts only."))

\* The cache directories a download can have left: nothing, or a manifest
\* with its part files, some of which may have been removed since.
EstDirs ==
    { [files |-> [f \in SeqToSet(DlRemoteParts) |-> -1],
       docs |-> [path \in {ManifestPath, ManifestTmpPath(ManifestPath)} |-> NoDocument]] }
    \cup
    { [files |-> [f \in SeqToSet(DlRemoteParts) |-> IF f \in kept THEN meta[f].size ELSE -1],
       docs |-> [path \in {ManifestPath, ManifestTmpPath(ManifestPath)} |->
                   IF path = ManifestPath
                   THEN [state |-> "valid", createdAt |-> created, files |-> meta]
                   ELSE NoDocument]] :
        meta \in [SeqToSet(DlRemoteParts) -> DlRemotePool],
        kept \in SUBSET SeqToSet(DlRemoteParts),
        created \in DlCreatedValues }

EstimatePaths == {"cached", "unchanged", "fresh"}

NoEstimateCall == [path |-> "none", estimate |-> <<>>]

EstIdleState ==
    [dir |-> [files |-> [f \in SeqToSet(DlRemoteParts) |-> -1],
              docs |-> [path \in {ManifestPath, ManifestTmpPath(ManifestPath)}
                          |-> NoDocument]],
     seen |-> {}, call |-> NoEstimateCall]
EstIdle == est = EstIdleState

(***************************************************************************)
(* Local parts store: reads of the caller's thread                         *)
(***************************************************************************)

\* No read yet.
ReaderIdleState ==
    [called |-> FALSE, rows |-> EmptyDb.rows, committed |-> EmptyDb.rows,
     in_transaction |-> FALSE]
ReaderIdle == reader = ReaderIdleState

\* search_parts / get_part_info: cursor = self.conn.cursor(); the SELECT runs on
\* the connection the import writes through.
ReadThroughConn(c) == c.working.rows

(***************************************************************************)
(* Schematic quality: auto_layout                                          *)
(***************************************************************************)

\* Largest number of nets of a netlist.
MaxNets == 2

\* Entries of the "connections" list of a net: pins of R1, a pin the netlist
\* generator could not resolve, and an entry without component.
Pin1 == [component |-> "R1", pin |-> "1"]
Pin2 == [component |-> "R1", pin |-> "2"]
PinUnknown == [component |-> "R1", pin |-> "unknown"]
PinNoComponent == [component |-> "", pin |-> "1"]

\* The nets a netlist can list: named nets with and without members, a net
\* without name.
NetPool ==
    { [name |-> "VCC", connections |-> <<Pin1>>],
      [name |-> "VCC", connections |-> <<Pin1, PinUnknown>>],
      [name |-> "VCC", connections |-> <<Pin1, Pin2>>],
      [name |-> "GND", connections |-> <<Pin2>>],
      [name |-> "GND", connections |-> <<PinNoComponent>>],
      [name |-> "", connections |-> <<Pin2>>] }

\* The value of netlist["nets"]: each net listed once.
Netlists ==
    { nets \in UNION { [1..n -> NetPool] : n \in 0..MaxNets } :
        \A i, j \in 1..Len(nets) : i # j => nets[i].name # nets[j].name }

\* _extract_membership: net name -> set of (component, pin); a net without
\* name is skipped, and so is an entry without component, without pin or with
\* pin "unknown".
extract_membership(nets) ==
    [ net_name \in { nets[i].name : i \in 1..Len(nets) } \ {""} |->
        LET net == nets[CHOOSE i \in 1..Len(nets) :
                          /\ nets[i].name = net_name
                          /\ \A j \in (i + 1)..Len(nets) : nets[j].name # net_name]
        IN { <<net.connections[k].component, net.connections[k].pin>> :
               k \in { c \in 1..Len(net.connections) :
                         /\ net.connections[c].component # ""
                         /\ net.connections[c].pin # ""
                         /\ net.connections[c].pin # "unknown" } } ]

\* after.get(net_name, set())
MembersOf(membership, net_name) ==
    IF net_name \in DOMAIN membership THEN membership[net_name] ELSE {}

\* _membership_equal: the nets of before whose members differ in after are the
\* mismatches; equal when there is none.
membership_equal(before, after) ==
    \A net_name \in DOMAIN before : before[net_name] = MembersOf(after, net_name)

\* had_connectivity = any(len(v) > 0 for v in baseline_membership.values())
had_connectivity(baseline_membership) ==
    \E net_name \in DOMAIN baseline_membership : baseline_membership[net_name] # {}

RECURSIVE SumMembers(_, _)
\* sum(len(v) for v in baseline_membership.values())
SumMembers(membership, names) ==
    IF names = {} THEN 0
    ELSE LET n == CHOOSE x \in names : TRUE
         IN Cardinality(membership[n]) + SumMembers(membership, names \ {n})

\* Variant: a layout that is never refused.
LayoutRefusedNever(had, preserve_connectivity, allow_unsafe) == FALSE

\* if had_connectivity and (not preserve_connectivity) and (not allow_unsafe)
LayoutRefused(had, preserve_connectivity, allow_unsafe) ==
    had /\ ~preserve_connectivity /\ ~allow_unsafe

\* The schematic file: where the symbols are, the netlist
\* ConnectionManager.generate_netlist reads from it, and whether it holds wires.
NewSchematic == [positions |-> "placed", nets |-> <<>>, has_wires |-> FALSE]

NoResult ==
    [success |-> FALSE, guard |-> "", message |-> "", connectivityPreserved |-> FALSE,
     rebuiltConnections |-> 0]

NoLayoutCall ==
    [preserve_connectivity |-> FALSE, allow_unsafe |-> FALSE, original_text |-> NewSchematic,
     result |-> NoResult]

SchIdleState == [file |-> NewSchematic, pc |-> "idle", call |-> NoLayoutCall]
SchIdle == sch = SchIdleState

RestIdle == ImpIdle /\ AltIdle /\ ReqIdle /\ EstIdle /\ ReaderIdle /\ SchIdle

(***************************************************************************)
(* Sync job orchestrator                                                   *)
(***************************************************************************)

\* Values of the request parameter "source" (default "auto"); "mirror" stands
\* for any value that is none of auto, official, public.
Sources == {"auto", "official", "public", "mirror"}

LiveStages == {"queued", "starting", "downloading", "importing"}

NoSuccess == [finishedAt |-> 0, source |-> "None"]

StatusInit ==
    [isRunning |-> FALSE, stage |-> "idle", source |-> "None",
     message |-> "No download in progress", startedAt |-> 0,
     elapsedSeconds |-> 0, importedParts |-> 0, lastUpdated |-> 0,
     error |-> "None", lastSuccess |-> NoSuccess]

NoRun == [pc |-> "none", force |-> FALSE, source |-> "None", confirm |-> FALSE,
          start_time |-> 0, success |-> FALSE, message |-> "None"]

\* A worker thread that has terminated.
DeadThread == [NoRun EXCEPT !.pc = "dead"]

\* Variant: the first busy check never sees the worker thread.
ThreadAliveNever == FALSE

ThreadAlive ==
    /\ jlcpcb_download_thread # 0
    /\ threads[jlcpcb_download_thread].pc # "dead"

\* elapsed = round(now - started) if started is not None else status["elapsedSeconds"]
Elapsed(st, now) ==
    IF st.startedAt # 0 THEN now - st.startedAt ELSE st.elapsedSeconds

\* status.update({"isRunning": True, "elapsedSeconds": elapsed, "lastUpdated": now})
BusyThreadUpdate(st, now) ==
    [st EXCEPT !.isRunning = TRUE, !.elapsedSeconds = Elapsed(st, now),
               !.lastUpdated = now]

\* status.update({"elapsedSeconds": elapsed, "lastUpdated": now})
BusyRunningUpdate(st, now) ==
    [st EXCEPT !.elapsedSeconds = Elapsed(st, now), !.lastUpdated = now]

\* Variant: the public source needs no confirmation.
GateWithoutConfirm(force, source, confirm) ==
    IF has_existing_db /\ ~force THEN "replace"
    ELSE IF source = "auto" THEN "source"
    ELSE IF source \notin {"official", "public"} THEN "unsupported"
    ELSE IF source = "official" /\ ~has_official_creds THEN "credentials"
    ELSE "pass"

\* The gates of a start request, in the order the handler evaluates them.
Gate(force, source, confirm) ==
    IF has_existing_db /\ ~force THEN "replace"
    ELSE IF source = "auto" THEN "source"
    ELSE IF source \notin {"official", "public"} THEN "unsupported"
    ELSE IF source = "official" /\ ~has_official_creds THEN "credentials"
    ELSE IF source = "public" /\ ~confirm THEN "confirm"
    ELSE "pass"

\* Variant: every gate records one stage, awaiting_input.
GateUpdateOneStage(st, gate, now) ==
    IF gate \in {"replace", "source", "confirm"}
    THEN [st EXCEPT !.isRunning = FALSE, !.stage = "awaiting_input", !.lastUpdated = now]
    ELSE st

\* The status written by a gate that stops the request (two gates write nothing).
GateUpdate(st, gate, now) ==
    CASE gate = "replace" ->
           [st EXCEPT !.isRunning = FALSE,
                      !.stage = "awaiting_replace_and_source_selection",
                      !.source = "None",
                      !.message = "Database already exists; waiting for replace confirmation and source selection",
                      !.lastUpdated = now]
      [] gate = "source" ->
           [st EXCEPT !.isRunning = FALSE, !.stage = "awaiting_source_selection",
                      !.source = "None", !.message = "Select download source",
                      !.lastUpdated = now]
      [] gate = "confirm" ->
           [st EXCEPT !.isRunning = FALSE, !.stage = "awaiting_download_confirmation",
                      !.source = "public",
                      !.message = "public snapshot download requires confirmation",
                      !.lastUpdated = now]
      [] OTHER -> st

GateMessage(gate) ==
    CASE gate = "replace" -> "Database already exists. Re-run with force=true to replace or keep current database."
      [] gate = "source" -> "Select source=official or source=public to continue"
      [] gate = "unsupported" -> "Unsupported source. Allowed: official, public"
      [] gate = "credentials" -> "Official source selected but credentials are not configured"
      [] gate = "confirm" -> "Confirm download to proceed with public snapshot source"
      [] OTHER -> "None"

QueuedUpdate(st, source, now) ==
    [st EXCEPT !.isRunning = TRUE, !.stage = "queued", !.source = source,
               !.message = "Download queued", !.startedAt = now,
               !.elapsedSeconds = 0, !.importedParts = 0, !.lastUpdated = now,
               !.error = "None"]

StartingUpdate(st, source, now) ==
    [st EXCEPT !.isRunning = TRUE, !.stage = "starting", !.source = source,
               !.message = "Initializing download", !.startedAt = now,
               !.elapsedSeconds = 0, !.importedParts = 0, !.lastUpdated = now,
               !.error = "None"]

\* official_download_callback / yaqwsx_download_callback
DownloadingUpdate(st, run, now) ==
    [st EXCEPT !.stage = "downloading", !.message = "downloading",
               !.elapsedSeconds = now - run.start_time, !.lastUpdated = now]

\* official_import_callback / yaqwsx_import_callback
ImportingUpdate(st, run, now) ==
    [st EXCEPT !.stage = "importing", !.message = "importing", !.importedParts = 1,
               !.elapsedSeconds = now - run.start_time, !.lastUpdated = now]

\* The update of the "no archive updates" return of the public path.
NoChangeUpdate(st, run, now) ==
    [st EXCEPT !.isRunning = FALSE, !.stage = "completed",
               !.message = "No public snapshot archive updates detected",
               !.elapsedSeconds = now - run.start_time, !.lastUpdated = now,
               !.importedParts = 0,
               !.lastSuccess = [finishedAt |-> now, source |-> run.source]]

\* The update at the end of a successful run.
CompletedUpdate(st, run, now) ==
    [st EXCEPT !.isRunning = FALSE, !.stage = "completed",
               !.message = "Download and import completed",
               !.elapsedSeconds = now - run.start_time, !.lastUpdated = now,
               !.importedParts = 1,
               !.lastSuccess = [finishedAt |-> now, source |-> run.source]]

\* Variant: the except clause clears isRunning but records no stage.
ExceptUpdateKeepsStage(st, e, now) ==
    [st EXCEPT !.isRunning = FALSE, !.error = e, !.lastUpdated = now]

\* The update of the handler's except clause.
ExceptUpdate(st, e, now) ==
    [st EXCEPT !.isRunning = FALSE, !.stage = "failed", !.message = "Download failed",
               !.error = e,
               !.elapsedSeconds = now - (IF st.startedAt # 0 THEN st.startedAt ELSE now),
               !.lastUpdated = now]

\* The update of _background_download_worker after an unsuccessful result.
WorkerFailedUpdate(st, msg, now) ==
    [st EXCEPT !.isRunning = FALSE, !.stage = "failed", !.message = msg, !.error = msg,
               !.elapsedSeconds = now - (IF st.startedAt # 0 THEN st.startedAt ELSE now),
               !.lastUpdated = now]

NoResponse ==
    [kind |-> "none", success |-> FALSE, started |-> FALSE, message |-> "None",
     status |-> StatusInit]

OrchInit ==
    /\ jlcpcb_download_status = StatusInit
    /\ jlcpcb_download_thread = 0
    /\ jlcpcb_download_last_result = "None"
    /\ threads = <<>>
    /\ main = NoRun
    /\ response = NoResponse
    /\ clock = 1
    /\ has_official_creds \in BOOLEAN
    /\ has_existing_db = TRUE
    /\ entry_last_success = NoSuccess

\* Runners: 0 is the main thread, i > 0 is worker thread i.
Runners == {0} \cup (1..Len(threads))
RunOf(w) == IF w = 0 THEN main ELSE threads[w]
SetRun(w, r) ==
    /\ main' = IF w = 0 THEN r ELSE main
    /\ threads' = IF w = 0 THEN threads ELSE [threads EXCEPT ![w] = r]

env_unchanged == UNCHANGED <<has_official_creds, has_existing_db>>
other_unchanged == UNCHANGED <<search_vars, plan_vars, dl_vars, store_vars, rest_vars>>

\* time.time() advances.
Tick ==
    /\ clock < MaxClock
    /\ clock' = clock + 1
    /\ response' = NoResponse
    /\ UNCHANGED <<jlcpcb_download_status, jlcpcb_download_thread,
                   jlcpcb_download_last_result, threads, main, entry_last_success>>
    /\ env_unchanged /\ other_unchanged

\* download_jlcpcb_database while the worker thread is alive (first busy check).
BusyThreadAlive ==
    /\ main.pc = "none"
    /\ ThreadAlive
    /\ jlcpcb_download_status' = BusyThreadUpdate(jlcpcb_download_status, clock)
    /\ response' = [kind |-> "busy", success |-> FALSE, started |-> FALSE,
                    message |-> "JLCPCB download is already running",
                    status |-> BusyThreadUpdate(jlcpcb_download_status, clock)]
    /\ UNCHANGED <<jlcpcb_download_thread, jlcpcb_download_last_result, threads, main,
                   clock, entry_last_success>>
    /\ env_unchanged /\ other_unchanged

\* download_jlcpcb_database with no live thread but isRunning set (second busy check).
BusyStatusRunning ==
    /\ main.pc = "none"
    /\ ~ThreadAlive
    /\ jlcpcb_download_status.isRunning
    /\ jlcpcb_download_status' = BusyRunningUpdate(jlcpcb_download_status, clock)
    /\ response' = [kind |-> "busy", success |-> FALSE, started |-> FALSE,
                    message |-> "JLCPCB download is already running",
                    status |-> BusyRunningUpdate(jlcpcb_download_status, clock)]
    /\ UNCHANGED <<jlcpcb_download_thread, jlcpcb_download_last_result, threads, main,
                   clock, entry_last_success>>
    /\ env_unchanged /\ other_unchanged

\* download_jlcpcb_database stopped by a gate.
GateRejected ==
    /\ main.pc = "none"
    /\ ~ThreadAlive
    /\ ~jlcpcb_download_status.isRunning
    /\ \E force \in BOOLEAN, source \in Sources, confirm \in BOOLEAN :
         /\ Gate(force, source, confirm) # "pass"
         /\ jlcpcb_download_status' =
              GateUpdate(jlcpcb_download_status, Gate(force, source, confirm), clock)
         /\ response' = [kind |-> Gate(force, source, confirm), success |-> FALSE,
                         started |-> FALSE,
                         message |-> GateMessage(Gate(force, source, confirm)),
                         status |-> StatusInit]
    /\ UNCHANGED <<jlcpcb_download_thread, jlcpcb_download_last_result, threads, main,
                   clock, entry_last_success>>
    /\ env_unchanged /\ other_unchanged

\* download_jlcpcb_database with background=true past every gate: the job is queued
\* and the worker thread is created and started.  (The isRunning test of the
\* background branch repeats the second busy check and cannot succeed here.)
StartBackground ==
    /\ main.pc = "none"
    /\ ~ThreadAlive
    /\ ~jlcpcb_download_status.isRunning
    /\ Len(threads) < MaxThreads
    /\ \E force \in BOOLEAN, source \in Sources, confirm \in BOOLEAN :
         /\ Gate(force, source, confirm) = "pass"
         /\ jlcpcb_download_status' = QueuedUpdate(jlcpcb_download_status, source, clock)
         /\ threads' = Append(threads,
                [pc |-> "entry", force |-> force, source |-> source,
                 confirm |-> confirm, start_time |-> 0, success |-> FALSE,
                 message |-> "None"])
         /\ response' = [kind |-> "started", success |-> TRUE, started |-> TRUE,
                         message |-> "JLCPCB database download started in background",
                         status |-> QueuedUpdate(jlcpcb_download_status, source, clock)]
    /\ jlcpcb_download_thread' = Len(threads) + 1
    /\ entry_last_success' = jlcpcb_download_status.lastSuccess
    /\ UNCHANGED <<jlcpcb_download_last_result, main, clock>>
    /\ env_unchanged /\ other_unchanged

\* download_jlcpcb_database with background=false past every gate: the run starts in
\* the main thread, which serves no other request until the handler returns.
StartForeground ==
    /\ main.pc = "none"
    /\ ~ThreadAlive
    /\ ~jlcpcb_download_status.isRunning
    /\ \E force \in BOOLEAN, source \in Sources, confirm \in BOOLEAN :
         /\ Gate(force, source, confirm) = "pass"
         /\ jlcpcb_download_status' = StartingUpdate(jlcpcb_download_status, source, clock)
         /\ main' = [pc |-> "download", force |-> force, source |-> source,
                     confirm |-> confirm, start_time |-> clock, success |-> FALSE,
                     message |-> "None"]
    /\ response' = NoResponse
    /\ entry_last_success' = jlcpcb_download_status.lastSuccess
    /\ UNCHANGED <<jlcpcb_download_thread, jlcpcb_download_last_result, threads, clock>>
    /\ env_unchanged /\ other_unchanged

\* The copy of the status a status query returns.
StatusSnapshot(st, now) ==
    IF st.isRunning /\ st.startedAt # 0
    THEN [st EXCEPT !.elapsedSeconds = now - st.startedAt]
    ELSE st

\* get_jlcpcb_download_status.
StatusRequest ==
    /\ main.pc = "none"
    /\ response' = [kind |-> "status", success |-> TRUE, started |-> FALSE,
                    message |-> "None",
                    status |-> StatusSnapshot(jlcpcb_download_status, clock)]
    /\ UNCHANGED <<jlcpcb_download_status, jlcpcb_download_thread,
                   jlcpcb_download_last_result, threads, main, clock,
                   entry_last_success>>
    /\ env_unchanged /\ other_unchanged

\* The worker thread calls the handler with _internal_worker=true: the busy checks
\* are skipped, the gates are evaluated again and the run starts.
WorkerEnter ==
    \E w \in Runners :
      /\ w # 0
      /\ RunOf(w).pc = "entry"
      /\ LET r == RunOf(w)
             g == Gate(r.force, r.source, r.confirm)
         IN IF g = "pass"
            THEN /\ jlcpcb_download_status' =
                      StartingUpdate(jlcpcb_download_status, r.source, clock)
                 /\ SetRun(w, [r EXCEPT !.pc = "download", !.start_time = clock])
            ELSE /\ jlcpcb_download_status' = GateUpdate(jlcpcb_download_status, g, clock)
                 /\ SetRun(w, [r EXCEPT !.pc = "post", !.success = FALSE,
                                        !.message = GateMessage(g)])
      /\ response' = NoResponse
      /\ UNCHANGED <<jlcpcb_download_thread, jlcpcb_download_last_result, clock,
                     entry_last_success>>
      /\ env_unchanged /\ other_unchanged

\* A progress callback of download_full_database / download_yaqwsx_cache.
DownloadProgress ==
    \E w \in Runners :
      /\ RunOf(w).pc = "download"
      /\ jlcpcb_download_status' =
           DownloadingUpdate(jlcpcb_download_status, RunOf(w), clock)
      /\ response' = NoResponse
      /\ UNCHANGED <<jlcpcb_download_thread, jlcpcb_download_last_result, threads, main,
                     clock, entry_last_success>>
      /\ env_unchanged /\ other_unchanged

\* The download returns.  changedParts is the number of archive parts the public
\* path fetched; the official path always goes on to the import.
DownloadReturns ==
    \E w \in Runners, changedParts \in 0..1 :
      /\ RunOf(w).pc = "download"
      /\ LET r == RunOf(w)
         IN IF r.source = "public" /\ changedParts = 0
            THEN /\ jlcpcb_download_status' =
                      NoChangeUpdate(jlcpcb_download_status, r, clock)
                 /\ SetRun(w, [r EXCEPT !.pc = "metadata"])
            ELSE /\ UNCHANGED jlcpcb_download_status
                 /\ SetRun(w, [r EXCEPT !.pc = "import"])
      /\ response' = NoResponse
      /\ UNCHANGED <<jlcpcb_download_thread, jlcpcb_download_last_result, clock,
                     entry_last_success>>
      /\ env_unchanged /\ other_unchanged

\* The download raises: the handler's except clause records the failure.
DownloadRaises ==
    \E w \in Runners :
      /\ RunOf(w).pc = "download"
      /\ jlcpcb_download_status' =
           ExceptUpdate(jlcpcb_download_status, "download error", clock)
      /\ SetRun(w, [RunOf(w) EXCEPT !.pc = "post", !.success = FALSE,
                                    !.message = "Failed to download database: download error"])
      /\ response' = NoResponse
      /\ UNCHANGED <<jlcpcb_download_thread, jlcpcb_download_last_result, clock,
                     entry_last_success>>
      /\ env_unchanged /\ other_unchanged

\* A progress callback of import_parts / import_yaqwsx_cache.
ImportProgress ==
    \E w \in Runners :
      /\ RunOf(w).pc = "import"
      /\ jlcpcb_download_status' =
           ImportingUpdate(jlcpcb_download_status, RunOf(w), clock)
      /\ response' = NoResponse
      /\ UNCHANGED <<jlcpcb_download_thread, jlcpcb_download_last_result, threads, main,
                     clock, entry_last_success>>
      /\ env_unchanged /\ other_unchanged

\* The import returns: the statistics are read and the run is recorded as completed.
ImportReturns ==
    \E w \in Runners :
      /\ RunOf(w).pc = "import"
      /\ jlcpcb_download_status' =
           CompletedUpdate(jlcpcb_download_status, RunOf(w), clock)
      /\ SetRun(w, IF RunOf(w).source = "public"
                   THEN [RunOf(w) EXCEPT !.pc = "metadata"]
                   ELSE [RunOf(w) EXCEPT !.pc = "post", !.success = TRUE])
      /\ response' = NoResponse
      /\ UNCHANGED <<jlcpcb_download_thread, jlcpcb_download_last_result, clock,
                     entry_last_success>>
      /\ env_unchanged /\ other_unchanged

\* The import raises: the handler's except clause records the failure.
ImportRaises ==
    \E w \in Runners :
      /\ RunOf(w).pc = "import"
      /\ jlcpcb_download_status' =
           ExceptUpdate(jlcpcb_download_status, "import error", clock)
      /\ SetRun(w, [RunOf(w) EXCEPT !.pc = "post", !.success = FALSE,
                                    !.message = "Failed to download database: import error"])
      /\ response' = NoResponse
      /\ UNCHANGED <<jlcpcb_download_thread, jlcpcb_download_last_result, clock,
                     entry_last_success>>
      /\ env_unchanged /\ other_unchanged

\* set_metadata("yaqwsx_last_total_parts", ...) of a public run, which the handler
\* calls after it has recorded the run as completed, returns.
MetadataReturns ==
    \E w \in Runners :
      /\ RunOf(w).pc = "metadata"
      /\ SetRun(w, [RunOf(w) EXCEPT !.pc = "post", !.success = TRUE])
      /\ response' = NoResponse
      /\ UNCHANGED <<jlcpcb_download_status, jlcpcb_download_thread,
                     jlcpcb_download_last_result, clock, entry_last_success>>
      /\ env_unchanged /\ other_unchanged

\* The same write raises (sqlite3.Error): the call is inside the handler's try
\* block, so the except clause records the failure.
MetadataRaises ==
    \E w \in Runners :
      /\ RunOf(w).pc = "metadata"
      /\ jlcpcb_download_status' =
           ExceptUpdate(jlcpcb_download_status, "metadata error", clock)
      /\ SetRun(w, [RunOf(w) EXCEPT !.pc = "post", !.success = FALSE,
                                    !.message = "Failed to download database: metadata error"])
      /\ response' = NoResponse
      /\ UNCHANGED <<jlcpcb_download_thread, jlcpcb_download_last_result, clock,
                     entry_last_success>>
      /\ env_unchanged /\ other_unchanged

\* _background_download_worker after the handler returned: the result is kept, and
\* an unsuccessful result with isRunning still set is recorded as failed.
WorkerPost ==
    \E w \in Runners :
      /\ w # 0
      /\ RunOf(w).pc = "post"
      /\ jlcpcb_download_last_result' =
           IF RunOf(w).success THEN "success" ELSE "failure"
      /\ jlcpcb_download_status' =
           IF ~RunOf(w).success /\ jlcpcb_download_status.isRunning
           THEN WorkerFailedUpdate(jlcpcb_download_status, RunOf(w).message, clock)
           ELSE jlcpcb_download_status
      /\ SetRun(w, [RunOf(w) EXCEPT !.pc = "exit"])
      /\ response' = NoResponse
      /\ UNCHANGED <<jlcpcb_download_thread, clock, entry_last_success>>
      /\ env_unchanged /\ other_unchanged

\* The worker thread terminates: is_alive() is false from now on.
ThreadExit ==
    \E w \in Runners :
      /\ w # 0
      /\ RunOf(w).pc = "exit"
      /\ SetRun(w, DeadThread)
      /\ response' = NoResponse
      /\ UNCHANGED <<jlcpcb_download_status, jlcpcb_download_thread,
                     jlcpcb_download_last_result, clock, entry_last_success>>
      /\ env_unchanged /\ other_unchanged

\* The handler of a foreground run returns its result to the caller.
MainReturn ==
    /\ main.pc = "post"
    /\ response' = [kind |-> IF main.success THEN "completed" ELSE "failed",
                    success |-> main.success, started |-> FALSE,
                    message |-> main.message, status |-> StatusInit]
    /\ main' = NoRun
    /\ UNCHANGED <<jlcpcb_download_status, jlcpcb_download_thread,
                   jlcpcb_download_last_result, threads, clock, entry_last_success>>
    /\ env_unchanged /\ other_unchanged

\* A step of a run that ends a call which returns or raises (no progress callback).
RunnerStep ==
    \/ WorkerEnter \/ DownloadReturns \/ DownloadRaises \/ ImportReturns
    \/ ImportRaises \/ MetadataReturns \/ MetadataRaises \/ WorkerPost \/ ThreadExit
    \/ MainReturn


Init == OrchInit /\ SearchIdle /\ PlanIdle /\ DlIdle /\ StoreIdle /\ RestIdle

Next ==
    \/ Tick
    \/ BusyThreadAlive
    \/ BusyStatusRunning
    \/ GateRejected
    \/ StartBackground
    \/ StartForeground
    \/ StatusRequest
    \/ WorkerEnter
    \/ DownloadProgress
    \/ DownloadReturns
    \/ DownloadRaises
    \/ ImportProgress
    \/ ImportReturns
    \/ ImportRaises
    \/ MetadataReturns
    \/ MetadataRaises
    \/ WorkerPost
    \/ ThreadExit
    \/ MainReturn

Spec == Init /\ [][Next]_vars

\* The scheduler runs every thread, and every network, extraction and import call
\* returns or raises.
LiveSpec == Spec /\ WF_vars(RunnerStep)

(***************************************************************************)
(* Operations of the local parts store                                     *)
(***************************************************************************)

\* A row is written to the catalog and committed.
InsertRow ==
    /\ \E row \in RowPool :
         /\ Len(InsertOrReplace(components, row)) <= MaxRows
         /\ components' = InsertOrReplace(components, row)
    /\ ~search_call.called
    /\ UNCHANGED <<search_call, orch_vars, plan_vars, dl_vars, store_vars, rest_vars>>

\* A call of search_parts; the caller holds no earlier result.
SearchParts ==
    /\ ~search_call.called
    /\ \E category \in CategoryArgs, package \in PackageArgs,
          library_type \in LibraryTypeArgs, manufacturer \in ManufacturerArgs,
          in_stock \in BOOLEAN, limit \in 0..MaxLimit :
         LET args == [category |-> category, package |-> package,
                      library_type |-> library_type, manufacturer |-> manufacturer,
                      in_stock |-> in_stock, limit |-> limit]
         IN search_call' = [called |-> TRUE, args |-> args,
                            result |-> search_parts(components, args)]
    /\ UNCHANGED <<components, orch_vars, plan_vars, dl_vars, store_vars, rest_vars>>

\* The result has been handed to the caller of search_jlcpcb_parts.
SearchReturn ==
    /\ search_call.called
    /\ search_call' = NoSearch
    /\ UNCHANGED <<components, orch_vars, plan_vars, dl_vars, store_vars, rest_vars>>

SearchInit == OrchInit /\ has_official_creds /\ SearchIdle /\ PlanIdle /\ DlIdle /\ StoreIdle /\ RestIdle

SearchNext == InsertRow \/ SearchParts \/ SearchReturn

SearchSpec == SearchInit /\ [][SearchNext]_vars

(***************************************************************************)
(* Operations of the download planner                                      *)
(***************************************************************************)

\* _plan_incremental_download is called with the archive part list.
PlanCall ==
    /\ plan.pc = "idle"
    /\ \E n \in 1..MaxParts :
         plan' = [PlanIdleState EXCEPT !.pc = "loop", !.archive_parts = ArchiveParts(n)]
    /\ UNCHANGED <<orch_vars, search_vars, dl_vars, store_vars, rest_vars>>

\* The loop reaches the next part and reads what is known about it: the probed
\* remote metadata, the manifest entry of the previous run and the file on disk.
PlanPart ==
    /\ plan.pc = "loop"
    /\ plan.filename = "None"
    /\ plan.done < Len(plan.archive_parts)
    /\ \E size \in 0..MaxSize, etag \in EtagValues, lastModified \in LastModifiedValues,
          prevEtag \in EtagValues, prevLastModified \in LastModifiedValues,
          local_size \in {-1} \cup (0..MaxSize) :
         plan' = PlanPartResult(plan, plan.archive_parts[plan.done + 1],
                    [size |-> size, etag |-> etag, lastModified |-> lastModified],
                    [size |-> 0, etag |-> prevEtag, lastModified |-> prevLastModified],
                    local_size)
    /\ UNCHANGED <<orch_vars, search_vars, dl_vars, store_vars, rest_vars>>

\* The iteration ends: what it read about its part goes out of use.
PlanPartDone ==
    /\ plan.pc = "loop"
    /\ plan.filename # "None"
    /\ plan' = [plan EXCEPT !.filename = "None", !.remote_file = NoFile,
                            !.previous = NoFile, !.local_size = -1]
    /\ UNCHANGED <<orch_vars, search_vars, dl_vars, store_vars, rest_vars>>

\* The loop is over: the plan is returned.
PlanReturn ==
    /\ plan.pc = "loop"
    /\ plan.filename = "None"
    /\ plan.done = Len(plan.archive_parts)
    /\ plan' = [plan EXCEPT !.pc = "done"]
    /\ UNCHANGED <<orch_vars, search_vars, dl_vars, store_vars, rest_vars>>

PlanInit == OrchInit /\ has_official_creds /\ SearchIdle /\ PlanIdle /\ DlIdle /\ StoreIdle /\ RestIdle

PlanNext == PlanCall \/ PlanPart \/ PlanPartDone \/ PlanReturn

PlanSpec == PlanInit /\ [][PlanNext]_vars

(***************************************************************************)
(* Operations of a public-snapshot run: download_yaqwsx_cache and the      *)
(* ingestion that follows it in the handler                                *)
(***************************************************************************)

DlResting == dl.pc \in {"idle", "done", "raised", "crashed"}

\* The start of a run: every local of the previous run is gone.
DlFresh == [DlIdleState EXCEPT !.runs = dl.runs + 1]

\* The run ended with an exception: its locals are gone, the error is reported.
DlRaised(d, error) ==
    [DlIdleState EXCEPT !.pc = "raised", !.runs = d.runs, !.error = error,
                        !.free_download = d.free_download,
                        !.free_extract = d.free_extract]

DlError(kind) == [NoError EXCEPT !.kind = kind]

\* estimate_yaqwsx_update(target_dir, include_remote_check=True) returns.  The
\* remote metadata probed here is the one the second probe of the run reports.
\* When download_yaqwsx_cache returns at once (no changed part), free_download
\* and free_extract are the free bytes of the two directories at that moment.
DlEstimate ==
    /\ DlResting
    /\ dl.runs < MaxDlRuns
    /\ \E created \in DlCreatedValues :
         LET env == [DlFresh EXCEPT !.created = created,
                                    !.existing_manifest = LoadManifest(cache_dir)]
         IN IF IndexUnchanged(cache_dir, created)
            THEN \E free_download \in DlFreeValues, free_extract \in DlFreeValues :
                   LET listed == SelectSeq(DlRemoteParts,
                                           LAMBDA f : f \in DOMAIN PreviousFiles(cache_dir))
                   IN dl' = [env EXCEPT
                               !.pc = "returned", !.no_update = TRUE,
                               !.archive_parts = listed,
                               !.estimated_total = SumSizes(listed, PreviousFiles(cache_dir)),
                               !.free_download = free_download,
                               !.free_extract = free_extract]
            ELSE \E z01_seen \in BOOLEAN, probe_error \in BOOLEAN,
                    meta \in [SeqToSet(DlRemoteParts) -> DlRemotePool] :
                   /\ probe_error => ~z01_seen
                   /\ LET discovered == IF z01_seen THEN DlRemoteParts ELSE <<"cache.zip">>
                          remote_meta == [f \in SeqToSet(discovered) |-> meta[f]]
                          changed == Len(DlPartsToDownload(discovered, remote_meta,
                                             PreviousFiles(cache_dir), cache_dir.files))
                          found == [env EXCEPT
                                      !.probe_error = probe_error,
                                      !.archive_parts = discovered,
                                      !.remote_meta = remote_meta,
                                      !.estimated_total = SumSizes(discovered, remote_meta)]
                      IN IF changed = 0
                         THEN \E free_download \in DlFreeValues, free_extract \in DlFreeValues :
                                dl' = [found EXCEPT !.pc = "returned", !.no_update = TRUE,
                                                    !.free_download = free_download,
                                                    !.free_extract = free_extract]
                         ELSE dl' = [found EXCEPT !.pc = "probe"]
    /\ UNCHANGED <<cache_dir, orch_vars, search_vars, plan_vars, store_vars, rest_vars>>

\* A HEAD request of estimate_yaqwsx_download or _get_remote_archive_metadata
\* raises (raise_for_status, timeout).
DlProbeRaises ==
    /\ \/ /\ DlResting
          /\ dl.runs < MaxDlRuns
          /\ dl' = DlRaised(DlFresh, DlError("network"))
       \/ /\ dl.pc = "probe"
          /\ dl' = DlRaised(dl, DlError("network"))
    /\ UNCHANGED <<cache_dir, orch_vars, search_vars, plan_vars, store_vars, rest_vars>>

\* _load_manifest, _get_remote_archive_metadata and _plan_incremental_download of
\* download_yaqwsx_cache.
DlPlan ==
    /\ dl.pc = "probe"
    /\ LET ptd == DlPartsToDownload(dl.archive_parts, dl.remote_meta,
                                    PreviousFiles(cache_dir), cache_dir.files)
       IN dl' = [dl EXCEPT
                   !.pc = "guard",
                   !.existing_manifest = LoadManifest(cache_dir),
                   !.parts_to_download = ptd,
                   !.reused_parts = DlReusedParts(dl.archive_parts, dl.remote_meta,
                                                  PreviousFiles(cache_dir), cache_dir.files),
                   !.total_download_bytes = SumSizes(ptd, dl.remote_meta)]
    /\ UNCHANGED <<cache_dir, orch_vars, search_vars, plan_vars, store_vars, rest_vars>>

\* The error of the disk-space preflight: "Required ~{required_mb} MB, available
\* {free_mb} MB".
DiskSpaceError(kind, required_bytes, free_bytes) ==
    [kind |-> kind, required |-> TenthsOfMB(required_bytes),
     available |-> TenthsOfMB(free_bytes)]

\* A preflight that checks the download directory only.
DlGuardResultDownloadOnly(d, free_download, free_extract) ==
    IF free_download < d.total_download_bytes
    THEN DlRaised([d EXCEPT !.free_download = free_download],
                  DiskSpaceError("disk_space_download",
                                 d.total_download_bytes, free_download))
    ELSE [d EXCEPT !.pc = "transfer", !.index = 1,
                   !.free_download = free_download, !.free_extract = free_extract]

\* The two disk-space checks that precede the transfer; the free bytes of the
\* extraction directory are read only when the first check passed.
DlGuardResult(d, free_download, free_extract) ==
    IF free_download < d.total_download_bytes
    THEN DlRaised([d EXCEPT !.free_download = free_download],
                  DiskSpaceError("disk_space_download",
                                 d.total_download_bytes, free_download))
    ELSE IF free_extract < EstimatedDbBytes(d.estimated_total)
    THEN DlRaised([d EXCEPT !.free_download = free_download,
                            !.free_extract = free_extract],
                  DiskSpaceError("disk_space_extract",
                                 EstimatedDbBytes(d.estimated_total), free_extract))
    ELSE [d EXCEPT !.pc = "transfer", !.index = 1,
                   !.free_download = free_download, !.free_extract = free_extract]

DlGuard ==
    /\ dl.pc = "guard"
    /\ \E free_download \in DlFreeValues, free_extract \in DlFreeValues :
         /\ free_download < dl.total_download_bytes => free_extract = MiB \div 2
         /\ dl' = DlGuardResult(dl, free_download, free_extract)
    /\ UNCHANGED <<cache_dir, orch_vars, search_vars, plan_vars, store_vars, rest_vars>>

\* A loop that goes on to the next part when a transfer failed.
AfterTransferSkipsFailure(d, ok) == [d EXCEPT !.index = d.index + 1]

\* Where the run goes after the transfer of one part ended.
AfterTransfer(d, ok) ==
    IF ok THEN [d EXCEPT !.index = d.index + 1] ELSE DlRaised(d, DlError("transfer"))

\* One iteration of the loop over parts_to_download: the part is streamed to
\* its file and the transfer ends well.
DlTransferOk ==
    /\ dl.pc = "transfer"
    /\ dl.index <= Len(dl.parts_to_download)
    /\ LET f == dl.parts_to_download[dl.index]
       IN cache_dir' = [cache_dir EXCEPT !.files[f] = dl.remote_meta[f].size]
    /\ dl' = AfterTransfer(dl, TRUE)
    /\ UNCHANGED <<orch_vars, search_vars, plan_vars, store_vars, rest_vars>>

\* The transfer of a part raises: before the file is opened (the file is as it
\* was) or while it is streamed (the file holds what was written so far).
DlTransferRaises ==
    /\ dl.pc = "transfer"
    /\ dl.index <= Len(dl.parts_to_download)
    /\ LET f == dl.parts_to_download[dl.index]
       IN \E left \in {cache_dir.files[f], 0, MiB} :
            /\ left = cache_dir.files[f] \/ left < dl.remote_meta[f].size
            /\ cache_dir' = [cache_dir EXCEPT !.files[f] = left]
    /\ dl' = AfterTransfer(dl, FALSE)
    /\ UNCHANGED <<orch_vars, search_vars, plan_vars, store_vars, rest_vars>>

\* _save_manifest: open(tmp_path, "w") creates or truncates the temporary file.
DlSaveOpen ==
    /\ dl.pc = "transfer"
    /\ dl.index > Len(dl.parts_to_download)
    /\ cache_dir' = [cache_dir EXCEPT !.docs[ManifestTmpPath(ManifestPath)] = PartialDocument]
    /\ dl' = [dl EXCEPT !.pc = "save_write"]
    /\ UNCHANGED <<orch_vars, search_vars, plan_vars, store_vars, rest_vars>>

\* _save_manifest: json.dump has written the whole text and the file is closed.
DlSaveWrite ==
    /\ dl.pc = "save_write"
    /\ cache_dir' = [cache_dir EXCEPT !.docs[ManifestTmpPath(ManifestPath)] = FinalManifest(dl)]
    /\ dl' = [dl EXCEPT !.pc = "save_replace"]
    /\ UNCHANGED <<orch_vars, search_vars, plan_vars, store_vars, rest_vars>>

\* _save_manifest: json.dump raises (disk full): part of the text is written.
DlSaveWriteRaises ==
    /\ dl.pc = "save_write"
    /\ dl' = DlRaised(dl, DlError("manifest"))
    /\ UNCHANGED <<cache_dir, orch_vars, search_vars, plan_vars, store_vars, rest_vars>>

\* _save_manifest: os.replace(tmp_path, manifest_path).
DlSaveReplace ==
    /\ dl.pc = "save_replace"
    /\ cache_dir' = [cache_dir EXCEPT
                       !.docs = [path \in DOMAIN cache_dir.docs |->
                                   IF path = ManifestPath
                                   THEN cache_dir.docs[ManifestTmpPath(ManifestPath)]
                                   ELSE NoDocument]]
    /\ dl' = [dl EXCEPT !.pc = "extract"]
    /\ UNCHANGED <<orch_vars, search_vars, plan_vars, store_vars, rest_vars>>

\* cache.zip and every part of the archive list are on disk, 7z extracts the
\* archive and cache.sqlite3 is there: download_yaqwsx_cache returns.
DlExtractReturns ==
    /\ dl.pc = "extract"
    /\ \A f \in SeqToSet(dl.archive_parts) \cup {"cache.zip"} : cache_dir.files[f] # -1
    /\ dl' = [dl EXCEPT !.pc = "returned"]
    /\ UNCHANGED <<cache_dir, orch_vars, search_vars, plan_vars, store_vars, rest_vars>>

\* A part is missing, 7z is missing or fails, or cache.sqlite3 is not produced.
DlExtractRaises ==
    /\ dl.pc = "extract"
    /\ dl' = DlRaised(dl, DlError("extract"))
    /\ UNCHANGED <<cache_dir, orch_vars, search_vars, plan_vars, store_vars, rest_vars>>

\* The handler after download_yaqwsx_cache returned with changedParts = 0: the
\* run is recorded as completed and nothing is ingested.
DlNoChangeCompleted ==
    /\ dl.pc = "returned"
    /\ dl.no_update
    /\ dl' = [DlIdleState EXCEPT !.pc = "done", !.runs = dl.runs, !.no_update = TRUE]
    /\ UNCHANGED <<cache_dir, orch_vars, search_vars, plan_vars, store_vars, rest_vars>>

\* The handler ingests the extracted catalog: import_yaqwsx_cache returns.
DlIngestReturns ==
    /\ dl.pc = "returned"
    /\ ~dl.no_update
    /\ dl' = [DlIdleState EXCEPT !.pc = "done", !.runs = dl.runs, !.ingested = TRUE]
    /\ UNCHANGED <<cache_dir, orch_vars, search_vars, plan_vars, store_vars, rest_vars>>

\* import_yaqwsx_cache raises.
DlIngestRaises ==
    /\ dl.pc = "returned"
    /\ ~dl.no_update
    /\ dl' = DlRaised(dl, DlError("import"))
    /\ UNCHANGED <<cache_dir, orch_vars, search_vars, plan_vars, store_vars, rest_vars>>

\* The process is killed in the middle of a run; the files stay as they are.
DlCrash ==
    /\ ~DlResting
    /\ dl' = [DlIdleState EXCEPT !.pc = "crashed", !.runs = dl.runs]
    /\ UNCHANGED <<cache_dir, orch_vars, search_vars, plan_vars, store_vars, rest_vars>>

DlInit == OrchInit /\ has_official_creds /\ SearchIdle /\ PlanIdle /\ DlIdle /\ StoreIdle /\ RestIdle

DlNext ==
    \/ DlEstimate
    \/ DlProbeRaises
    \/ DlPlan
    \/ DlGuard
    \/ DlTransferOk
    \/ DlTransferRaises
    \/ DlSaveOpen
    \/ DlSaveWrite
    \/ DlSaveWriteRaises
    \/ DlSaveReplace
    \/ DlExtractReturns
    \/ DlExtractRaises
    \/ DlNoChangeCompleted
    \/ DlIngestReturns
    \/ DlIngestRaises
    \/ DlCrash

DlSpec == DlInit /\ [][DlNext]_vars

(***************************************************************************)
(* Operations of a run that ingests: download_full_database, import_parts  *)
(* and import_yaqwsx_cache                                                 *)
(***************************************************************************)

IngestResting == ingest.pc \in {"idle", "ended"}

IngestFresh(source) ==
    [IngestIdleState EXCEPT !.runs = ingest.runs + 1, !.source = source,
                            !.before = catalog]

\* The handler's try block ended: stage completed, or the except clause set
\* stage failed.
IngestEnded(g, outcome) == [g EXCEPT !.pc = "ended", !.outcome = outcome]

\* A run on the official source starts download_full_database.
OfficialStart ==
    /\ IngestResting
    /\ ingest.runs < MaxIngestRuns
    /\ ingest' = [IngestFresh("official") EXCEPT !.pc = "paging", !.index = 1]
    /\ UNCHANGED <<catalog, orch_vars, search_vars, plan_vars, dl_vars, rest_vars>>

\* fetch_parts_page returns a page; the loop ends after the last page.
OfficialPageFetched ==
    /\ ingest.pc = "paging"
    /\ ingest' = [ingest EXCEPT
                    !.parts = Append(ingest.parts, OfficialPages[ingest.index]),
                    !.index = IF ingest.index = Len(OfficialPages) THEN 1 ELSE ingest.index + 1,
                    !.pc = IF ingest.index = Len(OfficialPages) THEN "import_parts" ELSE "paging"]
    /\ UNCHANGED <<catalog, orch_vars, search_vars, plan_vars, dl_vars, rest_vars>>

\* fetch_parts_page raises: with no part so far the exception leaves
\* download_full_database, otherwise the parts fetched so far are returned.
OfficialPageRaises ==
    /\ ingest.pc = "paging"
    /\ ingest' = IF Len(ingest.parts) > 0
                 THEN [ingest EXCEPT !.download_error = TRUE, !.index = 1,
                                     !.pc = "import_parts"]
                 ELSE IngestEnded([ingest EXCEPT !.download_error = TRUE], "failed")
    /\ UNCHANGED <<catalog, orch_vars, search_vars, plan_vars, dl_vars, rest_vars>>

\* import_parts: INSERT OR REPLACE of one part.
ImportPartsRow ==
    /\ ingest.pc = "import_parts"
    /\ ingest.index <= Len(ingest.parts)
    /\ catalog' = ExecuteInsertOrReplace(catalog, ingest.parts[ingest.index], ingest.runs)
    /\ ingest' = [ingest EXCEPT !.index = ingest.index + 1]
    /\ UNCHANGED <<orch_vars, search_vars, plan_vars, dl_vars, rest_vars>>

\* import_parts: the statements for one part raise; the exception is logged and
\* the part is counted as skipped.
ImportPartsRowRaises ==
    /\ ingest.pc = "import_parts"
    /\ ingest.index <= Len(ingest.parts)
    /\ ingest' = [ingest EXCEPT !.index = ingest.index + 1, !.row_error = TRUE]
    /\ UNCHANGED <<catalog, orch_vars, search_vars, plan_vars, dl_vars, rest_vars>>

\* import_parts: the rebuild of the full-text index and self.conn.commit(); the
\* handler then records stage completed.
ImportPartsCommit ==
    /\ ingest.pc = "import_parts"
    /\ ingest.index > Len(ingest.parts)
    /\ catalog' = Commit(catalog)
    /\ ingest' = IngestEnded(ingest, "completed")
    /\ UNCHANGED <<orch_vars, search_vars, plan_vars, dl_vars, rest_vars>>

\* A run on the public source whose download returned changed parts calls
\* import_yaqwsx_cache, without a watermark (full) or with one.
PublicStart ==
    /\ IngestResting
    /\ ingest.runs < MaxIngestRuns
    /\ \E full \in BOOLEAN, rows \in SnapshotRows :
         ingest' = [IngestFresh("public") EXCEPT !.pc = "begin", !.full = full,
                                                 !.rows = rows, !.index = 1]
    /\ UNCHANGED <<catalog, orch_vars, search_vars, plan_vars, dl_vars, rest_vars>>

\* import_yaqwsx_cache: BEGIN IMMEDIATE and, for a full import, the drop of the
\* indexes and DELETE FROM components.  BEGIN raises inside an open transaction.
YaqBegin ==
    /\ ingest.pc = "begin"
    /\ IF catalog.in_transaction
       THEN /\ ingest' = [ingest EXCEPT !.pc = "except"]
            /\ UNCHANGED catalog
       ELSE /\ ingest' = [ingest EXCEPT !.pc = "batch"]
            /\ catalog' = IF ingest.full
                          THEN [DropComponentIndexes(catalog) EXCEPT
                                  !.working.rows = [l \in Lcsc |-> 0]]
                          ELSE [catalog EXCEPT !.in_transaction = TRUE]
    /\ UNCHANGED <<orch_vars, search_vars, plan_vars, dl_vars, rest_vars>>

\* import_yaqwsx_cache: executemany of one batch.
YaqBatch ==
    /\ ingest.pc = "batch"
    /\ ingest.index <= Len(ingest.rows)
    /\ catalog' = ExecuteInsertOrReplace(catalog, ingest.rows[ingest.index], ingest.runs)
    /\ ingest' = [ingest EXCEPT !.index = ingest.index + 1]
    /\ UNCHANGED <<orch_vars, search_vars, plan_vars, dl_vars, rest_vars>>

\* import_yaqwsx_cache: reading or writing the rows of a batch raises.
YaqBatchRaises ==
    /\ ingest.pc = "batch"
    /\ ingest.index <= Len(ingest.rows)
    /\ ingest' = [ingest EXCEPT !.pc = "except", !.row_error = TRUE]
    /\ UNCHANGED <<catalog, orch_vars, search_vars, plan_vars, dl_vars, rest_vars>>

\* import_yaqwsx_cache: after the last batch the indexes are created again (full
\* import) and the transaction is committed; the handler records completed.
YaqCommit ==
    /\ ingest.pc = "batch"
    /\ ingest.index > Len(ingest.rows)
    /\ catalog' = Commit(IF ingest.full THEN CreateComponentIndexes(catalog) ELSE catalog)
    /\ ingest' = IngestEnded(ingest, "completed")
    /\ UNCHANGED <<orch_vars, search_vars, plan_vars, dl_vars, rest_vars>>

\* The except clause of import_yaqwsx_cache: _create_component_indexes, then
\* self.conn.rollback(), then the exception is raised again.
YaqExceptRollsBack ==
    /\ ingest.pc = "except"
    /\ catalog' = Rollback(CreateComponentIndexes(catalog))
    /\ ingest' = IngestEnded(ingest, "failed")
    /\ UNCHANGED <<orch_vars, search_vars, plan_vars, dl_vars, rest_vars>>

\* The except clause of import_yaqwsx_cache: _create_component_indexes raises,
\* the inner except passes, self.conn.rollback() is not reached, and the
\* exception is raised again.
YaqExceptCreateRaises ==
    /\ ingest.pc = "except"
    /\ catalog.in_transaction
    /\ ingest' = IngestEnded(ingest, "failed")
    /\ UNCHANGED <<catalog, orch_vars, search_vars, plan_vars, dl_vars, rest_vars>>

StoreInit == OrchInit /\ has_official_creds /\ SearchIdle /\ PlanIdle /\ DlIdle /\ StoreIdle /\ RestIdle

StoreNext ==
    \/ OfficialStart
    \/ OfficialPageFetched
    \/ OfficialPageRaises
    \/ ImportPartsRow
    \/ ImportPartsRowRaises
    \/ ImportPartsCommit
    \/ PublicStart
    \/ YaqBegin
    \/ YaqBatch
    \/ YaqBatchRaises
    \/ YaqCommit
    \/ YaqExceptRollsBack
    \/ YaqExceptCreateRaises

StoreSpec == StoreInit /\ [][StoreNext]_vars

\* search_jlcpcb_parts or get_jlcpcb_part served by the main thread, at any
\* point of the worker's import.
CallerReads ==
    /\ reader' = [called |-> TRUE, rows |-> ReadThroughConn(catalog),
                  committed |-> catalog.committed.rows,
                  in_transaction |-> catalog.in_transaction]
    /\ UNCHANGED <<imp, alt, req, est, sch, orch_vars, search_vars, plan_vars, dl_vars,
                   store_vars>>

\* The steps of the ingesting run leave the caller's last read alone
\* (rest_vars); the caller reads between any two of them.
ReadNext == StoreNext \/ CallerReads

ReadSpec == StoreInit /\ [][ReadNext]_vars

(***************************************************************************)
(* Operations of the import of a public snapshot                           *)
(***************************************************************************)

\* Batch sizes, scaled down: every row its own batch, or two rows a batch.
BatchSizes == {1, 2}

\* The values of incremental_since a caller passes.
SinceValues == {NoneInt, 1, 2}

\* imp after import_yaqwsx_cache(src, in_stock_only, incremental_since) returned
\* at time now_ts; kind tells who called, repeat that this and the call before
\* it are full imports of the same source with the same stock filter.
AfterImport(kind, src, in_stock_only, incremental_since, batch_size, now_ts) ==
    LET result == ImportYaqwsxCache(imp.db, src, in_stock_only, incremental_since,
                                    batch_size, now_ts)
    IN [imp EXCEPT
          !.db = result.db,
          !.now = now_ts,
          !.runs = imp.runs + 1,
          !.call = [kind |-> kind, src |-> src, in_stock_only |-> in_stock_only,
                    incremental_since |-> incremental_since,
                    batch_size |-> batch_size, now_ts |-> now_ts,
                    repeat |-> /\ imp.call.kind # "none"
                               /\ imp.call.src = src
                               /\ imp.call.in_stock_only = in_stock_only
                               /\ imp.call.incremental_since = NoneInt
                               /\ incremental_since = NoneInt,
                    before |-> imp.db, watermark_before |-> imp.watermark,
                    max_last_update |-> result.max_last_update]]

\* A caller of the store runs import_yaqwsx_cache with arguments of its own.
ImportCall ==
    /\ imp.runs < MaxImportRuns
    /\ \E src \in SourceSnapshots, in_stock_only \in BOOLEAN,
          incremental_since \in SinceValues, batch_size \in BatchSizes,
          later \in {0, 1} :
         imp' = AfterImport("direct", src, in_stock_only, incremental_since,
                            batch_size, imp.now + later)
    /\ UNCHANGED <<alt, req, est, reader, sch, orch_vars, search_vars, plan_vars, dl_vars, store_vars>>

\* The handler of a public run: the watermark is read from the metadata, the
\* snapshot is imported with in_stock_only=False, and the returned
\* max_last_update is stored as the new watermark.
SyncImport ==
    /\ imp.runs < MaxImportRuns
    /\ \E src \in SourceSnapshots, batch_size \in BatchSizes, later \in {0, 1} :
         LET after == AfterImport("sync", src, FALSE, IncrementalSince(imp.watermark),
                                  batch_size, imp.now + later)
         IN imp' = [after EXCEPT
                      !.watermark = NextWatermark(imp.watermark, after.call.max_last_update)]
    /\ UNCHANGED <<alt, req, est, reader, sch, orch_vars, search_vars, plan_vars, dl_vars, store_vars>>

ImportInit ==
    /\ OrchInit /\ has_official_creds
    /\ SearchIdle /\ PlanIdle /\ DlIdle /\ StoreIdle /\ RestIdle

ImportNext == ImportCall \/ SyncImport

ImportSpec == ImportInit /\ [][ImportNext]_vars

(***************************************************************************)
(* Operations of the alternative-part suggestion                           *)
(***************************************************************************)

\* A row is written to the catalog and committed.
AltInsertRow ==
    /\ ~alt.call.called
    /\ \E row \in AltRowPool :
         /\ Len(InsertOrReplace(alt.table, row)) <= MaxAltRows
         /\ alt' = [alt EXCEPT !.table = InsertOrReplace(alt.table, row)]
    /\ UNCHANGED <<imp, req, est, reader, sch, orch_vars, search_vars, plan_vars, dl_vars, store_vars>>

\* A call of suggest_alternatives.
SuggestAlternatives ==
    /\ ~alt.call.called
    /\ \E lcsc_number \in AltKeys, limit \in 0..MaxAltLimit :
         alt' = [alt EXCEPT !.call =
                    [called |-> TRUE, lcsc_number |-> lcsc_number, limit |-> limit,
                     result |-> suggest_alternatives(alt.table, lcsc_number, limit)]]
    /\ UNCHANGED <<imp, req, est, reader, sch, orch_vars, search_vars, plan_vars, dl_vars, store_vars>>

\* The list has been handed to the caller.
AltReturn ==
    /\ alt.call.called
    /\ alt' = [alt EXCEPT !.call = NoAltCall]
    /\ UNCHANGED <<imp, req, est, reader, sch, orch_vars, search_vars, plan_vars, dl_vars, store_vars>>

AltInit == OrchInit /\ has_official_creds /\ SearchIdle /\ PlanIdle /\ DlIdle /\ StoreIdle /\ RestIdle

AltNext == AltInsertRow \/ SuggestAlternatives \/ AltReturn

AltSpec == AltInit /\ [][AltNext]_vars

(***************************************************************************)
(* Operations of the schematic layout                                      *)
(***************************************************************************)

\* The record auto_layout returns on success.
LayoutSuccess(preserved, rebuilt_count) ==
    [success |-> TRUE, guard |-> "", message |-> "",
     connectivityPreserved |-> preserved, rebuiltConnections |-> rebuilt_count]

\* The record of a refusal or of a reverted layout.
LayoutFailure(guard, message) ==
    [success |-> FALSE, guard |-> guard, message |-> message,
     connectivityPreserved |-> FALSE, rebuiltConnections |-> 0]

\* The state after a call that found the file original_text and left it file.
AfterLayout(file, preserve_connectivity, allow_unsafe, result) ==
    [file |-> file, pc |-> "returned",
     call |-> [preserve_connectivity |-> preserve_connectivity,
               allow_unsafe |-> allow_unsafe, original_text |-> sch.file,
               result |-> result]]

\* The schematic is edited between two layouts: symbols are placed and
\* connected.
EditSchematic ==
    /\ sch.pc = "idle"
    /\ \E nets \in Netlists, has_wires \in BOOLEAN :
         sch' = [sch EXCEPT !.file = [positions |-> "placed", nets |-> nets,
                                      has_wires |-> has_wires]]
    /\ UNCHANGED <<imp, alt, req, est, reader, orch_vars, search_vars, plan_vars, dl_vars, store_vars>>

\* auto_layout returns at the guard, before any symbol is moved.
AutoLayoutRefuses ==
    /\ sch.pc = "idle"
    /\ \E preserve_connectivity, allow_unsafe \in BOOLEAN :
         /\ LayoutRefused(had_connectivity(extract_membership(sch.file.nets)),
                          preserve_connectivity, allow_unsafe)
         /\ sch' = AfterLayout(sch.file, preserve_connectivity, allow_unsafe,
                               LayoutFailure("connectivity_present", "Layout refused"))
    /\ UNCHANGED <<imp, alt, req, est, reader, orch_vars, search_vars, plan_vars, dl_vars, store_vars>>

\* auto_layout moves the symbols, writes the file and returns: nothing is
\* rebuilt (no connectivity, or preserve_connectivity is off).
AutoLayoutWithoutRebuild ==
    /\ sch.pc = "idle"
    /\ \E preserve_connectivity, allow_unsafe \in BOOLEAN :
         LET had == had_connectivity(extract_membership(sch.file.nets))
         IN /\ ~LayoutRefused(had, preserve_connectivity, allow_unsafe)
            /\ ~(preserve_connectivity /\ had)
            /\ \E nets \in (IF had THEN Netlists ELSE {sch.file.nets}) :
                 sch' = AfterLayout([sch.file EXCEPT !.positions = "layout", !.nets = nets],
                                    preserve_connectivity, allow_unsafe,
                                    LayoutSuccess(FALSE, 0))
    /\ UNCHANGED <<imp, alt, req, est, reader, orch_vars, search_vars, plan_vars, dl_vars, store_vars>>

\* The layout is written, the wires and labels are cleared, and a
\* connect_to_net of the rebuild returns False: the original text is written
\* back.
AutoLayoutRebuildFails ==
    /\ sch.pc = "idle"
    /\ \E preserve_connectivity, allow_unsafe \in BOOLEAN :
         LET had == had_connectivity(extract_membership(sch.file.nets))
         IN /\ ~LayoutRefused(had, preserve_connectivity, allow_unsafe)
            /\ preserve_connectivity /\ had
            /\ sch' = AfterLayout(sch.file, preserve_connectivity, allow_unsafe,
                                  LayoutFailure("", "Failed to rebuild connectivity"))
    /\ UNCHANGED <<imp, alt, req, est, reader, orch_vars, search_vars, plan_vars, dl_vars, store_vars>>

\* Every connect_to_net returned True; the netlist generated from the rebuilt
\* file is compared with the baseline, and the original text is written back
\* when _membership_equal finds a mismatch.
AutoLayoutRebuilds ==
    /\ sch.pc = "idle"
    /\ \E preserve_connectivity, allow_unsafe \in BOOLEAN :
         LET baseline_membership == extract_membership(sch.file.nets)
             had == had_connectivity(baseline_membership)
         IN /\ ~LayoutRefused(had, preserve_connectivity, allow_unsafe)
            /\ preserve_connectivity /\ had
            /\ \E after_nets \in Netlists, has_wires \in BOOLEAN :
                 IF membership_equal(baseline_membership, extract_membership(after_nets))
                 THEN sch' = AfterLayout(
                                 [positions |-> "layout", nets |-> after_nets,
                                  has_wires |-> has_wires],
                                 preserve_connectivity, allow_unsafe,
                                 LayoutSuccess(TRUE,
                                               SumMembers(baseline_membership,
                                                          DOMAIN baseline_membership)))
                 ELSE sch' = AfterLayout(sch.file, preserve_connectivity, allow_unsafe,
                                         LayoutFailure("", "Connectivity changed after layout"))
    /\ UNCHANGED <<imp, alt, req, est, reader, orch_vars, search_vars, plan_vars, dl_vars, store_vars>>

\* The record has been handed to the caller.
AutoLayoutReturn ==
    /\ sch.pc = "returned"
    /\ sch' = [sch EXCEPT !.pc = "idle", !.call = NoLayoutCall]
    /\ UNCHANGED <<imp, alt, req, est, reader, orch_vars, search_vars, plan_vars, dl_vars, store_vars>>

SchInit ==
    /\ OrchInit /\ has_official_creds
    /\ SearchIdle /\ PlanIdle /\ DlIdle /\ StoreIdle /\ RestIdle

SchNext ==
    \/ EditSchematic
    \/ AutoLayoutRefuses
    \/ AutoLayoutWithoutRebuild
    \/ AutoLayoutRebuildFails
    \/ AutoLayoutRebuilds
    \/ AutoLayoutReturn

SchSpec == SchInit /\ [][SchNext]_vars

(***************************************************************************)
(* Operations of the vendor API client                                     *)
(***************************************************************************)

\* fetch_parts_page: _get_auth_header raises before requests.post is reached.
FetchPartsPageRaisesNotConfigured ==
    /\ req.requests < MaxRequests
    /\ CredentialsMissing(req)
    /\ req' = [req EXCEPT !.requests = @ + 1, !.error = NotConfigured, !.result = "None"]
    /\ UNCHANGED <<imp, alt, est, reader, sch, orch_vars, search_vars, plan_vars, dl_vars, store_vars>>

\* fetch_parts_page: the request is signed and posted; it returns data["data"]
\* or raises on a transport error, a bad status or a code other than 200.
FetchPartsPagePosts ==
    /\ req.requests < MaxRequests
    /\ ~CredentialsMissing(req)
    /\ \E outcome \in PostOutcomes :
         req' = [req EXCEPT !.requests = @ + 1, !.network_calls = @ + 1,
                            !.error = IF outcome = "data" THEN "None" ELSE outcome,
                            !.result = IF outcome = "data" THEN "data" ELSE "None"]
    /\ UNCHANGED <<imp, alt, est, reader, sch, orch_vars, search_vars, plan_vars, dl_vars, store_vars>>

\* The server process starts with any subset of the three variables set.
ReqInit ==
    /\ OrchInit
    /\ \E app_id, access_key, secret_key \in BOOLEAN :
         req = NewClient(app_id, access_key, secret_key)
    /\ has_official_creds = AllCredentials(req)
    /\ SearchIdle /\ PlanIdle /\ DlIdle /\ StoreIdle /\ ImpIdle /\ AltIdle /\ EstIdle
    /\ ReaderIdle /\ SchIdle

ReqNext ==
    \/ Tick
    \/ BusyThreadAlive
    \/ GateRejected
    \/ StartBackground
    \/ StartForeground
    \/ FetchPartsPageRaisesNotConfigured
    \/ FetchPartsPagePosts

ReqSpec == ReqInit /\ [][ReqNext]_vars

(***************************************************************************)
(* Operations of the update estimate                                       *)
(***************************************************************************)

AfterEstimate(path, estimate) ==
    [est EXCEPT !.seen = @ \cup {path}, !.call = [path |-> path, estimate |-> estimate]]

\* estimate_yaqwsx_update(target_dir, include_remote_check): the quick estimate,
\* the index.json shortcut, or the fresh estimate.  The HEAD requests of
\* estimate_yaqwsx_download and of _get_remote_archive_metadata report the same.
EstimateYaqwsxUpdate ==
    /\ \E include_remote_check \in BOOLEAN, remote_created_at \in DlCreatedValues :
         IF ~include_remote_check
         THEN est' = AfterEstimate("cached", CachedEstimate(est.dir))
         ELSE IF IndexUnchanged(est.dir, remote_created_at)
         THEN est' = AfterEstimate("unchanged", UnchangedEstimate(est.dir, remote_created_at))
         ELSE \E z01_seen \in BOOLEAN, created_at \in DlCreatedValues,
                 meta \in [SeqToSet(DlRemoteParts) -> DlRemotePool] :
                LET discovered == IF z01_seen THEN DlRemoteParts ELSE <<"cache.zip">>
                    remote_meta == [f \in SeqToSet(discovered) |-> meta[f]]
                IN est' = AfterEstimate("fresh", FreshEstimate(est.dir, discovered,
                                                               remote_meta, created_at))
    /\ UNCHANGED <<imp, alt, req, reader, sch, orch_vars, search_vars, plan_vars, dl_vars, store_vars>>

\* A HEAD request of the fresh path raises: the call returns no record.
EstimateYaqwsxUpdateRaises ==
    /\ \E remote_created_at \in DlCreatedValues :
         ~IndexUnchanged(est.dir, remote_created_at)
    /\ est' = [est EXCEPT !.call = [path |-> "raised", estimate |-> <<>>]]
    /\ UNCHANGED <<imp, alt, req, reader, sch, orch_vars, search_vars, plan_vars, dl_vars, store_vars>>

EstInit ==
    /\ OrchInit /\ has_official_creds
    /\ SearchIdle /\ PlanIdle /\ DlIdle /\ StoreIdle /\ ImpIdle /\ AltIdle /\ ReqIdle
    /\ ReaderIdle /\ SchIdle
    /\ \E dir \in EstDirs : est = [EstIdleState EXCEPT !.dir = dir]

EstNext == EstimateYaqwsxUpdate \/ EstimateYaqwsxUpdateRaises

EstSpec == EstInit /\ [][EstNext]_vars

(***************************************************************************)
(* Claims about the sync job orchestrator                                  *)
(***************************************************************************)

Stage == jlcpcb_download_status.stage

\* The runs that have been started and whose thread has not ended.
LiveRuns == {w \in Runners : RunOf(w).pc \notin {"none", "dead"}}

\* A step that serves a download_jlcpcb_database request.
StartRequestStep ==
    BusyThreadAlive \/ BusyStatusRunning \/ GateRejected \/ StartBackground
        \/ StartForeground

\* C1: at most one sync job is live at any time, and a start request that arrives
\* while the stage is queued, starting, downloading or importing is answered busy
\* (success and started false) with a snapshot of the current status, and starts
\* no second run.
C1_SingleFlight ==
    /\ [](Cardinality(LiveRuns) <= 1)
    /\ [][(StartRequestStep /\ Stage \in LiveStages) =>
            /\ response'.kind = "busy"
            /\ ~response'.started /\ ~response'.success
            /\ response'.status = jlcpcb_download_status'
            /\ response'.status.stage = Stage
            /\ threads' = threads /\ main' = main]_vars

C1_Witness ==
    /\ response.kind = "busy"
    /\ response.status.stage = "downloading"
    /\ Cardinality(LiveRuns) = 1

\* C2: every job that has been started (stage queued or starting) eventually
\* reaches stage completed or failed.
C2_JobTerminates ==
    (Stage \in {"queued", "starting"}) ~> (Stage \in {"completed", "failed"})

C2_Witness ==
    /\ Stage \in {"completed", "failed"}
    /\ jlcpcb_download_thread # 0
    /\ ~ThreadAlive
    /\ jlcpcb_download_last_result # "None"

\* C3: lastSuccess changes only in a step that records stage completed; a run that
\* ends in failed has recorded an error and left lastSuccess as it was when the run
\* was started; requests leave lastSuccess unchanged.
C3_LastSuccessOnlyOnCompleted ==
    /\ [](Stage = "failed" =>
            /\ jlcpcb_download_status.error # "None"
            /\ jlcpcb_download_status.lastSuccess = entry_last_success)
    /\ [][jlcpcb_download_status'.lastSuccess # jlcpcb_download_status.lastSuccess =>
            /\ jlcpcb_download_status'.stage = "completed"
            /\ ~(StartRequestStep \/ StatusRequest)]_vars

\* C4: while a background job is live, a start request answered busy and a status
\* query leave every field of the status record unchanged.
C4_OnlyWorkerWrites ==
    [][((BusyThreadAlive \/ BusyStatusRunning \/ StatusRequest) /\ Stage \in LiveStages)
         => jlcpcb_download_status' = jlcpcb_download_status]_vars

\* What the claim asks of a request whose job may start.
PassesEveryGate(r) ==
    /\ r.force \/ ~has_existing_db
    /\ r.source \in {"official", "public"}
    /\ r.source = "official" => has_official_creds
    /\ r.source = "public" => r.confirm

GateKinds == {"replace", "source", "unsupported", "credentials", "confirm"}

AwaitingStageOf(kind) ==
    CASE kind = "replace" -> "awaiting_replace_and_source_selection"
      [] kind = "source" -> "awaiting_source_selection"
      [] kind = "confirm" -> "awaiting_download_confirmation"
      [] OTHER -> Stage

\* C5: a job is queued or starting only for a request that passed every gate; a
\* request stopped by a gate returns a failure, records the awaiting stage of the
\* gate where there is one, and starts no run.
C5_GatesBeforeStart ==
    /\ [](/\ \A w \in LiveRuns : PassesEveryGate(RunOf(w))
          /\ Stage \in {"queued", "starting"} => LiveRuns # {})
    /\ [][response'.kind \in GateKinds =>
            /\ ~response'.success /\ ~response'.started
            /\ jlcpcb_download_status'.stage = AwaitingStageOf(response'.kind)
            /\ ~jlcpcb_download_status'.isRunning
            /\ threads' = threads /\ main' = main]_vars

C5_Witness ==
    /\ Stage = "queued"
    /\ \E w \in LiveRuns : RunOf(w).source = "public" /\ RunOf(w).confirm

TierRank(t) == CASE t = "Basic" -> 0 [] t = "Preferred" -> 1 [] OTHER -> 2

\* C7: a search without library_type returns its rows ordered by tier, Basic rows
\* before Preferred rows before Extended rows.
C7_BasicFirst ==
    (search_call.called /\ search_call.args.library_type = "") =>
        \A i, j \in 1..Len(search_call.result) :
            i < j => TierRank(search_call.result[i].library_type)
                       <= TierRank(search_call.result[j].library_type)

\* The filters other than the tier, as the search contract words them.
SatisfiesOtherFilters(row, args) ==
    /\ args.category # <<>> => Like(row.category, args.category)
    /\ args.package # <<>> => Like(row.package, args.package)
    /\ args.manufacturer # <<>> => Like(row.manufacturer, args.manufacturer)
    /\ args.in_stock => row.stock > 0

\* C8: a search with library_type = T returns only rows of the catalog whose tier
\* is T and that satisfy the other filters, each once, and as many of them as
\* there are, up to limit; never more than limit rows.
C8_TierFilter ==
    (search_call.called /\ search_call.args.library_type # "") =>
        LET args == search_call.args
            res == search_call.result
            wanted == {i \in 1..Len(components) :
                         /\ components[i].library_type = args.library_type
                         /\ SatisfiesOtherFilters(components[i], args)}
        IN /\ \A k \in 1..Len(res) : \E i \in wanted : components[i] = res[k]
           /\ \A k, l \in 1..Len(res) : k # l => res[k] # res[l]
           /\ Len(res) <= args.limit
           /\ Len(res) = IF args.limit < Cardinality(wanted)
                         THEN args.limit ELSE Cardinality(wanted)

C8_Witness ==
    /\ search_call.called
    /\ search_call.args.library_type = "Extended"
    /\ search_call.args.category = Resistors
    /\ Len(components) = 3
    /\ Len(search_call.result) = 1
    /\ search_call.result[1].lcsc = "C_EXT"

(***************************************************************************)
(* Claims about the download planner                                       *)
(***************************************************************************)

InSeq(x, seq) == \E k \in 1..Len(seq) : seq[k] = x

RECURSIVE SumSeq(_)
SumSeq(seq) == IF seq = <<>> THEN 0 ELSE Head(seq) + SumSeq(Tail(seq))

\* An iteration has just decided the part plan.filename.
PartDecided == plan.pc = "loop" /\ plan.filename # "None"

\* The change-tags of the manifest and of the remote are both there and equal.
TagsEqual(p) ==
    /\ NormalizeEtag(p.previous.etag) # <<>>
    /\ NormalizeEtag(p.previous.etag) = NormalizeEtag(p.remote_file.etag)

\* The last-modified values of the manifest and of the remote are both there and equal.
LastModifiedEqual(p) ==
    /\ StripOf(p.previous.lastModified, {" "}) # <<>>
    /\ StripOf(p.previous.lastModified, {" "})
         = StripOf(p.remote_file.lastModified, {" "})

\* The manifest and the remote both carry a change-tag, and the two differ.
TagChanged(p) ==
    /\ NormalizeEtag(p.previous.etag) # <<>>
    /\ NormalizeEtag(p.remote_file.etag) # <<>>
    /\ NormalizeEtag(p.previous.etag) # NormalizeEtag(p.remote_file.etag)

\* C9: every iteration that finds its part on disk with a change-tag value, or a
\* last-modified value, equal to the one of the manifest (both there) puts the part
\* in reusedParts and leaves totalDownloadBytes as it was, whatever the sizes are;
\* every iteration that finds no local file puts the part in partsToDownload.
C9_PlannerReuse ==
    [][PartDecided' =>
         /\ (plan'.local_size # -1 /\ (TagsEqual(plan') \/ LastModifiedEqual(plan'))) =>
               /\ plan'.reusedParts = Append(plan.reusedParts, plan'.filename)
               /\ plan'.partsToDownload = plan.partsToDownload
               /\ ~InSeq(plan'.filename, plan'.partsToDownload)
               /\ plan'.totalDownloadBytes = plan.totalDownloadBytes
         /\ plan'.local_size = -1 =>
               /\ plan'.partsToDownload = Append(plan.partsToDownload, plan'.filename)
               /\ ~InSeq(plan'.filename, plan'.reusedParts)]_vars

\* The first part, of remote size 2, was reused and is not in the total; the second
\* has no local file and is downloaded although its change-tag is the one of the
\* manifest.
C9_Witness ==
    /\ PartDecided
    /\ plan.done = 2
    /\ plan.local_size = -1 /\ TagsEqual(plan)
    /\ plan.reusedParts = <<"cache.z01">>
    /\ plan.partsToDownload = <<"cache.zip">>
    /\ plan.remote_sizes = <<2, 1>>
    /\ plan.totalDownloadBytes = 1

\* The parts of the plan partition the parts decided so far, and the total is the
\* sum of the remote sizes of the parts to download.
PlanPartition ==
    LET decided == SubSeq(plan.archive_parts, 1, plan.done)
    IN /\ \A k \in 1..Len(decided) :
            InSeq(decided[k], plan.partsToDownload)
                # InSeq(decided[k], plan.reusedParts)
       /\ \A k \in 1..Len(plan.partsToDownload) : InSeq(plan.partsToDownload[k], decided)
       /\ \A k \in 1..Len(plan.reusedParts) : InSeq(plan.reusedParts[k], decided)
       /\ Len(plan.partsToDownload) + Len(plan.reusedParts) = plan.done
       /\ plan.totalDownloadBytes =
            SumSeq([k \in 1..plan.done |->
                      IF InSeq(decided[k], plan.partsToDownload)
                      THEN plan.remote_sizes[k] ELSE 0])
       /\ plan.pc = "done" => plan.done = Len(plan.archive_parts)

\* C10 as stated: a part whose change-tag changed and whose size differs is
\* downloaded; the two lists partition the archive part list; the total is the sum
\* of the remote sizes of the parts to download.
C10_PlannerRedownload ==
    /\ PartDecided /\ TagChanged(plan) /\ plan.local_size # plan.remote_file.size
         => InSeq(plan.filename, plan.partsToDownload)
    /\ PlanPartition

\* C10 amended: the part is downloaded unless its last-modified value equals the
\* one of the manifest.
C10_PlannerRedownloadAmended ==
    /\ (PartDecided /\ TagChanged(plan) /\ plan.local_size # plan.remote_file.size
          /\ ~(plan.local_size # -1 /\ LastModifiedEqual(plan)))
         => InSeq(plan.filename, plan.partsToDownload)
    /\ PlanPartition

C10_Witness ==
    /\ PartDecided
    /\ plan.done = 2
    /\ TagChanged(plan)
    /\ plan.local_size = 1 /\ plan.remote_file.size = 2
    /\ plan.reusedParts = <<"cache.z01">>
    /\ plan.remote_sizes = <<1, 2>>
    /\ plan.partsToDownload = <<"cache.zip">>
    /\ plan.totalDownloadBytes = 2

\* The manifest and the remote both carry a last-modified value.
LastModifiedOnBothSides(p) ==
    /\ StripOf(p.previous.lastModified, {" "}) # <<>>
    /\ StripOf(p.remote_file.lastModified, {" "}) # <<>>

\* The manifest and the remote both carry a change-tag.
TagOnBothSides(p) ==
    /\ NormalizeEtag(p.previous.etag) # <<>>
    /\ NormalizeEtag(p.remote_file.etag) # <<>>

\* Neither side carries a change-tag or a last-modified value.
NoSignal(p) ==
    /\ NormalizeEtag(p.previous.etag) = <<>>
    /\ NormalizeEtag(p.remote_file.etag) = <<>>
    /\ StripOf(p.previous.lastModified, {" "}) = <<>>
    /\ StripOf(p.remote_file.lastModified, {" "}) = <<>>

\* The part is on disk with the remote size and rule 2 did not decide it.
SameSizeUndecided(p) ==
    /\ p.local_size # -1
    /\ p.local_size = p.remote_file.size
    /\ ~(TagsEqual(p) \/ LastModifiedEqual(p))

\* C11 as stated: a part on disk whose size equals the remote size, and that rule 2
\* did not decide, is reused, also when both sides carry a change-tag (or a
\* last-modified value) and the two differ.
C11_SameSizeReused ==
    (PartDecided /\ SameSizeUndecided(plan)) => InSeq(plan.filename, plan.reusedParts)

\* C11 amended: such a part is downloaded when both sides carry a change-tag, or
\* both carry a last-modified value (the two then differ), and reused otherwise.
C11_SameSizeReusedAmended ==
    (PartDecided /\ SameSizeUndecided(plan)) =>
        IF TagOnBothSides(plan) \/ LastModifiedOnBothSides(plan)
        THEN /\ InSeq(plan.filename, plan.partsToDownload)
             /\ ~InSeq(plan.filename, plan.reusedParts)
        ELSE /\ InSeq(plan.filename, plan.reusedParts)
             /\ ~InSeq(plan.filename, plan.partsToDownload)

\* A part of equal size whose change-tag changed is downloaded, after a part of
\* equal size with a tag on the remote side only was reused.
C11_Witness ==
    /\ PartDecided /\ plan.done = 2
    /\ SameSizeUndecided(plan) /\ TagChanged(plan) /\ ~LastModifiedOnBothSides(plan)
    /\ plan.local_size = 1
    /\ plan.partsToDownload = <<"cache.zip">>
    /\ plan.reusedParts = <<"cache.z01">>
    /\ plan.remote_sizes = <<2, 1>>
    /\ plan.totalDownloadBytes = 1

DlPastPreflight == dl.pc \in {"transfer", "save_write", "save_replace", "extract", "returned"}

\* The free bytes the call saw cover the planned download and the estimated
\* size of the expanded catalog.
DlSpaceSufficient ==
    /\ dl.free_download >= dl.total_download_bytes
    /\ dl.free_extract >= EstimatedDbBytes(dl.estimated_total)

\* C13 (as stated): whenever the free bytes of the download directory are below
\* the planned download bytes, or the free bytes of the extraction directory are
\* below the estimated expanded-catalog bytes, download_yaqwsx_cache aborts with
\* a disk-space error: it never goes on, or returns, with too little space.
C13_DiskSpaceGuard == DlPastPreflight => DlSpaceSufficient

\* C13 (amended): when the estimate reports at least one changed part, so that
\* the call does not return at once with noUpdate, too little free space in
\* either directory aborts the call with a disk-space error that carries the
\* required and the available megabytes; no step up to and including the
\* preflight writes a part file or the manifest.
C13_DiskSpaceGuardAmended ==
    /\ [](DlPastPreflight /\ ~dl.no_update => DlSpaceSufficient)
    /\ [][ /\ (dl'.pc \in {"probe", "guard"} \/ dl.pc \in {"probe", "guard"})
              => cache_dir' = cache_dir
           /\ dl.pc = "guard" /\ dl'.pc = "raised"
              => /\ dl'.error.kind \in {"disk_space_download", "disk_space_extract"}
                 /\ dl'.error.kind = "disk_space_download"
                    => /\ dl'.free_download < dl.total_download_bytes
                       /\ dl'.error.required = TenthsOfMB(dl.total_download_bytes)
                       /\ dl'.error.available = TenthsOfMB(dl'.free_download)
                 /\ dl'.error.kind = "disk_space_extract"
                    => /\ dl'.free_extract < EstimatedDbBytes(dl.estimated_total)
                       /\ dl'.error.required
                            = TenthsOfMB(EstimatedDbBytes(dl.estimated_total))
                       /\ dl'.error.available = TenthsOfMB(dl'.free_extract)
         ]_vars

\* The extraction check aborted a run that had a manifest from an earlier run.
C13_Witness ==
    /\ dl.pc = "raised"
    /\ dl.error.kind = "disk_space_extract"
    /\ dl.error.required > dl.error.available
    /\ LoadManifest(cache_dir).state = "valid"

\* Every part planned for download is on disk with the size the remote reports.
PlannedPartsDownloaded(d, dir) ==
    \A i \in 1..Len(d.parts_to_download) :
        dir.files[d.parts_to_download[i]] = d.remote_meta[d.parts_to_download[i]].size

\* C14: the manifest file changes only in the replace step of _save_manifest,
\* which is reached after every planned part has been downloaded; a transfer
\* that fails ends the run with an exception (the part is not tried again),
\* and the manifest then holds the content it had when the run started.
C14_ManifestAfterAllParts ==
    [][ /\ cache_dir'.docs[ManifestPath] # cache_dir.docs[ManifestPath]
           => /\ dl.pc = "save_replace"
              /\ dl.index = Len(dl.parts_to_download) + 1
              /\ PlannedPartsDownloaded(dl, cache_dir)
        /\ dl.pc = "transfer" /\ dl'.pc = "transfer"
           => /\ dl'.index = dl.index + 1
              /\ cache_dir'.files[dl.parts_to_download[dl.index]]
                   = dl.remote_meta[dl.parts_to_download[dl.index]].size
        /\ dl.pc = "transfer" /\ dl'.pc = "raised"
           => /\ dl'.error.kind = "transfer"
              /\ cache_dir'.docs[ManifestPath] = dl.existing_manifest
      ]_vars

\* A transfer failed in a run that started with a manifest of an earlier run,
\* and left a shorter file behind.
C14_Witness ==
    /\ dl.pc = "raised"
    /\ dl.error.kind = "transfer"
    /\ LoadManifest(cache_dir).state = "valid"
    /\ \E f \in DOMAIN PreviousFiles(cache_dir) :
         cache_dir.files[f] < PreviousFiles(cache_dir)[f].size

\* The download phase of the run ended well: the manifest has been saved.
DlPhaseSucceeded == dl.pc \in {"extract", "returned"} /\ ~dl.no_update

\* C15: after a successful download phase the file map of the manifest has one
\* entry for each part of the current archive list (reused parts included)
\* and no other entry, and every part it names is on disk with the size the
\* manifest records for it.
C15_ManifestMatchesDisk ==
    DlPhaseSucceeded =>
        /\ DOMAIN PreviousFiles(cache_dir) = SeqToSet(dl.archive_parts)
        /\ \A f \in DOMAIN PreviousFiles(cache_dir) :
               cache_dir.files[f] = PreviousFiles(cache_dir)[f].size

\* C16: whatever step of _save_manifest the process is killed in, and whether
\* the write of the text fails, the manifest path holds either no document or
\* one complete document (the one of the last completed save, or the new one):
\* never a partly written text.
C16_ManifestAtomic ==
    /\ cache_dir.docs[ManifestPath].state \in {"absent", "valid"}
    /\ dl.pc \in {"save_write", "save_replace"}
         => cache_dir.docs[ManifestPath] = dl.existing_manifest
    /\ dl.pc = "extract" => cache_dir.docs[ManifestPath] = FinalManifest(dl)

\* The process was killed while the temporary file held a partly written text,
\* in a run that started with a complete manifest.
C16_Witness ==
    /\ dl.pc = "crashed"
    /\ cache_dir.docs[ManifestTmpPath(ManifestPath)].state = "partial"
    /\ cache_dir.docs[ManifestPath].state = "valid"

\* C17: in a public-snapshot run the manifest is committed last: the manifest
\* file changes only after the Local Parts Store has ingested the catalog of
\* that run.
C17_ManifestAfterIngest ==
    [][cache_dir'.docs[ManifestPath] # cache_dir.docs[ManifestPath] => dl.ingested]_vars

(***************************************************************************)
(* Claims about ingestion into the Local Parts Store                       *)
(***************************************************************************)

\* C18: when a batch of a full import (import_yaqwsx_cache without watermark)
\* raises, the run ends failed, the catalog read through the store has the rows
\* it had before the import and all five indexes, and the committed content is
\* the one from before the import.
C18_FullImportRollsBack ==
    ingest.pc = "ended" /\ ingest.source = "public" /\ ingest.full /\ ingest.row_error
        => /\ ingest.outcome = "failed"
           /\ catalog.working.rows = ingest.before.working.rows
           /\ catalog.working.indexes = ComponentIndexes
           /\ catalog.committed = ingest.before.committed

\* C19: a run in which the download raised an error ends in stage failed and
\* its catalog is the catalog from before the run.
C19_DownloadErrorKeepsCatalog ==
    ingest.pc = "ended" /\ ingest.download_error
        => /\ ingest.outcome = "failed"
           /\ catalog = ingest.before

\* C20: a run in which ingesting a row raised, on either ingestion path, ends
\* in stage failed and has committed no row.
C20_RowErrorRollsBack ==
    ingest.pc = "ended" /\ ingest.row_error
        => /\ ingest.outcome = "failed"
           /\ catalog.committed = ingest.before.committed

(***************************************************************************)
(* Claims about the import of a public snapshot                            *)
(***************************************************************************)

\* The rows of a table, as a set.
RowSet(table) == { table[i] : i \in 1..Len(table) }

\* No two rows of the catalog have the same lcsc.
NoDuplicateKeys(table) ==
    \A i, j \in 1..Len(table) : i # j => table[i].lcsc # table[j].lcsc

\* The source rows of the last call that carry a last_update.
DatedKeys(call) ==
    { LcscKey(call.src[i].lcsc) : i \in { k \in 1..Len(call.src) : call.src[k].last_update # 0 } }

\* C21 (as stated): a full import of the source the previous full import read
\* leaves the same set of rows with the same content, and no two rows of the
\* catalog share an lcsc.
C21_FullImportIdempotent ==
    /\ NoDuplicateKeys(imp.db.table)
    /\ imp.call.repeat => RowSet(imp.db.table) = RowSet(imp.call.before.table)

\* C21 (amended): a repeated full import leaves the same set of keys, and the
\* same content for every row whose source row carries a last_update; a row
\* whose source row has none keeps its other columns and gets the time of the
\* import as last_updated.  After any sequence of imports no two rows share an
\* lcsc.
C21_FullImportIdempotentAmended ==
    /\ NoDuplicateKeys(imp.db.table)
    /\ imp.call.repeat =>
         /\ KeysOf(imp.db.table) = KeysOf(imp.call.before.table)
         /\ \A r \in RowSet(imp.db.table) :
              IF r.lcsc \in DatedKeys(imp.call)
              THEN r \in RowSet(imp.call.before.table)
              ELSE /\ r.last_updated = imp.call.now_ts
                   /\ \E q \in RowSet(imp.call.before.table) :
                        q.lcsc = r.lcsc /\ q.stock = r.stock

\* A full import was repeated on a source of two rows, one without last_update,
\* at a later time.
C21_Witness ==
    /\ imp.call.repeat
    /\ Len(imp.db.table) = 2
    /\ \E r \in RowSet(imp.db.table) : r.last_updated = imp.call.now_ts
    /\ RowSet(imp.db.table) # RowSet(imp.call.before.table)

\* The last call was an incremental import.
IncrementalCall == imp.call.kind # "none" /\ imp.call.incremental_since # NoneInt

\* The keys of the source rows of the last call that are newer than its watermark.
NewerKeys(call) ==
    { LcscKey(call.src[i].lcsc) :
        i \in { k \in 1..Len(call.src) : call.src[k].last_update > call.incremental_since } }

C23_WatermarkMonotone ==
    imp.call.kind = "sync" => imp.watermark >= imp.call.watermark_before

\* m is the largest last_update of the rows of src, NoneInt when no row has one.
IsMaxLastUpdate(m, src) ==
    IF \A i \in 1..Len(src) : src[i].last_update = 0
    THEN m = NoneInt
    ELSE /\ \E i \in 1..Len(src) : src[i].last_update = m
         /\ \A i \in 1..Len(src) : src[i].last_update <= m

C25_EmptyImportNoOp ==
    /\ IncrementalCall
    /\ FilteredSource(imp.call.src, imp.call.in_stock_only, imp.call.incremental_since) = <<>>
    => /\ imp.db = imp.call.before
       /\ imp.call.max_last_update = imp.call.incremental_since

(***************************************************************************)
(* Claims about the alternative-part suggestion                            *)
(***************************************************************************)

\* The part the last call of suggest_alternatives was about; <<>> when absent.
ReferencePart == get_part_info(alt.table, alt.call.lcsc_number)

\* C26: suggest_alternatives for key K returns only parts that have K's
\* subcategory and K's package, never K itself, and the empty list when K is
\* not in the catalog.
C26_SameSubcategoryAndPackage ==
    alt.call.called =>
        IF ReferencePart = <<>> THEN alt.call.result = <<>>
        ELSE \A i \in 1..Len(alt.call.result) :
               /\ alt.call.result[i].subcategory = ReferencePart[1].subcategory
               /\ alt.call.result[i].package = ReferencePart[1].package
               /\ alt.call.result[i].lcsc # alt.call.lcsc_number

\* C27: the list suggest_alternatives returns is ordered by one lexicographic
\* key: Basic parts first, then ascending first listed price, then descending
\* stock.
C27_RankedLexicographically ==
    alt.call.called =>
        \A i, j \in 1..Len(alt.call.result) :
            i < j =>
                LET a == alt.call.result[i]
                    b == alt.call.result[j]
                IN /\ (b.library_type = "Basic") => (a.library_type = "Basic")
                   /\ (a.library_type = "Basic") = (b.library_type = "Basic") =>
                        /\ FirstPrice(a) <= FirstPrice(b)
                        /\ FirstPrice(a) = FirstPrice(b) => a.stock >= b.stock

\* Two alternatives of the same tier and the same first price were returned,
\* the one with the larger stock first, in an order that is not the table's.
C27_Witness ==
    /\ alt.call.called
    /\ Len(alt.call.result) = 2
    /\ alt.call.result[1].library_type # "Basic"
    /\ FirstPrice(alt.call.result[1]) = FirstPrice(alt.call.result[2])
    /\ alt.call.result[1].stock > alt.call.result[2].stock
    /\ alt.call.result # Limit(SelectSeq(alt.table, LAMBDA p : p.lcsc # alt.call.lcsc_number), 2)

(***************************************************************************)
(* Claims about the vendor API client                                      *)
(***************************************************************************)

\* C28: when any of the three credentials is missing, a vendor-API request
\* fails with the error "credentials not configured" and no network call has
\* been made, no job with source official is running or recorded, and a start
\* request stopped for missing credentials fails and starts nothing.
C28_CredentialsFailFast ==
    /\ [](~AllCredentials(req) =>
            /\ req.network_calls = 0
            /\ req.requests > 0 => req.error = NotConfigured /\ req.result = "None"
            /\ \A w \in Runners : RunOf(w).source # "official"
            /\ jlcpcb_download_status.source # "official")
    /\ [][response'.kind = "credentials" =>
            /\ ~AllCredentials(req)
            /\ ~response'.success /\ ~response'.started
            /\ threads' = threads /\ main' = main
            /\ jlcpcb_download_thread' = jlcpcb_download_thread
            /\ jlcpcb_download_status' = jlcpcb_download_status]_vars

\* With only the secret key missing, a request has failed and a start with
\* source official has been rejected.
C28_Witness ==
    /\ req.app_id /\ req.access_key /\ ~req.secret_key
    /\ req.requests > 0
    /\ response.kind = "credentials"

(***************************************************************************)
(* Claims about the update estimate                                        *)
(***************************************************************************)

EstimateFieldNames ==
    {"source", "createdFrom", "createdAt", "downloadFiles", "archiveParts",
     "downloadSizeBytes", "downloadSizeMB", "estimatedDatabaseSizeMB",
     "estimatedDownloadTimeMinutes", "estimatedPartCount", "estimatedInStockParts",
     "estimatedBasicParts", "estimatedExtendedParts", "cacheDirectory",
     "cacheManifestPath", "estimatedUpdateDownloadBytes", "estimatedUpdateDownloadMB",
     "changedArchiveParts", "reusedArchiveParts", "isInitialArchiveDownload",
     "estimatedUpdateTimeMinutes"}

\* C29: the record estimate_yaqwsx_update returns has the same field names on
\* the path without remote check, on the index.json shortcut and on the fresh
\* path, and so have its two nested time records.
C29_SameFieldShape ==
    est.call.path \in EstimatePaths =>
        /\ DOMAIN est.call.estimate = EstimateFieldNames
        /\ DOMAIN est.call.estimate.estimatedDownloadTimeMinutes = {"min", "max", "note"}
        /\ DOMAIN est.call.estimate.estimatedUpdateTimeMinutes = {"min", "max", "note"}
        /\ DOMAIN est.call.estimate.estimatedPartCount = {"min", "max", "note"}

\* The three paths have been taken on one directory, the last one the fresh
\* path with a changed part.
C29_Witness ==
    /\ est.seen = EstimatePaths
    /\ est.call.path = "fresh"
    /\ est.call.estimate.changedArchiveParts > 0

(***************************************************************************)
(* Claims about the status flag of the sync job                            *)
(***************************************************************************)

\* C30: in every reachable state isRunning is true only in a live stage
\* (queued, starting, downloading, importing), and it is false in the stages
\* completed, failed and awaiting_*.
C30_RunningOnlyInLiveStage ==
    /\ jlcpcb_download_status.isRunning => Stage \in LiveStages
    /\ Stage \in {"completed", "failed", "awaiting_replace_and_source_selection",
                  "awaiting_source_selection", "awaiting_download_confirmation"}
         => ~jlcpcb_download_status.isRunning

\* The worker thread of the last background job has exited and no run is live.
WorkerExited ==
    /\ jlcpcb_download_thread # 0
    /\ ~ThreadAlive
    /\ main.pc = "none"

\* C31: once the worker of a background job has exited, no start request is
\* answered busy: a request that passes every gate starts a new job.
C31_BusyNeverPermanent ==
    [][WorkerExited => ~(BusyThreadAlive \/ BusyStatusRunning)]_vars

(***************************************************************************)
(* Claims about a public-snapshot run after a failed one                   *)
(***************************************************************************)

\* The last run failed in the extraction or in the import, that is, after its
\* download phase had succeeded and committed the manifest.
FailedAfterDownload ==
    dl.pc = "raised" /\ dl.error.kind \in {"extract", "import"}

\* C32: the run that follows a run that failed after its download phase does
\* not end with "no updates" (stage completed, nothing extracted or ingested):
\* the snapshot that was downloaded and not ingested is extracted and ingested.
C32_RetryIngestsSnapshot ==
    [][FailedAfterDownload => ~dl'.no_update]_vars

(***************************************************************************)
(* Claims about the replace gate                                           *)
(***************************************************************************)

\* The store as _init_database left it: no row, and no sync has been started.
NeverFilled ==
    /\ components = <<>>
    /\ jlcpcb_download_status.startedAt = 0
    /\ threads = <<>>

\* C33: a start request on a store that has never been filled is not stopped
\* by the replace gate, whatever its force argument.
C33_ReplaceGateNeedsCatalog ==
    [][NeverFilled => response'.kind # "replace"]_vars

(***************************************************************************)
(* Claims about a public-snapshot run on an unchanged archive              *)
(***************************************************************************)

\* index.json reports the created value the manifest records, and every part
\* the manifest names is on disk.
SameEpochAllPartsLocal(dir, created) ==
    /\ created # 0
    /\ dir.docs[ManifestPath].state = "valid"
    /\ dir.docs[ManifestPath].createdAt = created
    /\ \A f \in DOMAIN dir.docs[ManifestPath].files : dir.files[f] # -1

\* C34: a run that starts with the remote created value equal to the manifest's
\* and every manifest part on disk probes no part and plans no download; a run
\* that found nothing to update ends completed with nothing ingested, and the
\* part files, the manifest, the catalog and the watermark are unchanged.
C34_UnchangedEpochIsNoOp ==
    [][ /\ (DlResting /\ dl'.runs = dl.runs + 1
              /\ SameEpochAllPartsLocal(cache_dir, dl'.created))
           => /\ dl'.pc = "returned" /\ dl'.no_update
              /\ dl'.remote_meta = <<>> /\ dl'.parts_to_download = <<>>
              /\ cache_dir' = cache_dir
        /\ (dl.pc = "returned" /\ dl.no_update)
           => /\ dl'.pc \in {"done", "crashed"}
              /\ ~dl'.ingested
              /\ cache_dir' = cache_dir
              /\ catalog' = catalog /\ imp' = imp
      ]_vars

\* A later run took the shortcut: nothing was probed, the manifest of the
\* earlier run is in place.
C34_Witness ==
    /\ dl.pc = "returned" /\ dl.no_update
    /\ dl.runs > 1
    /\ dl.remote_meta = <<>>
    /\ SameEpochAllPartsLocal(cache_dir, dl.created)

(***************************************************************************)
(* Claims about reads during an import                                     *)
(***************************************************************************)

\* C35: a search or lookup of the caller returns committed rows only, also
\* while an import is running: not the table emptied by the delete of a full
\* import, and no row of a transaction that is still open.
C35_ReadsCommittedOnly ==
    reader.called => reader.rows = reader.committed

(***************************************************************************)
(* Claims about the full-text index                                        *)
(***************************************************************************)

\* C36: after every committed import, full or incremental, the full-text
\* index holds exactly one entry for each catalog row and no other entry: no
\* key of the catalog is missing, none is indexed twice, and every entry is
\* the entry of a row the catalog holds now.
C36_IndexMatchesCatalog ==
    imp.call.kind # "none"
    => /\ \A k \in KeysOf(imp.db.table) :
            Cardinality({ e \in imp.db.fts : e.lcsc = k }) = 1
       /\ \A e \in imp.db.fts :
            \E i \in 1..Len(imp.db.table) :
                imp.db.table[i].lcsc = e.lcsc /\ imp.db.rowids[i] = e.rowid

(***************************************************************************)
(* Claims about the rows an incremental import keeps                       *)
(***************************************************************************)

\* C37: an incremental import removes no catalog row: every key the catalog
\* held before the import is held after it, also the keys of parts that the
\* upstream snapshot no longer lists.
C37_IncrementalKeepsKeys ==
    (imp.call.kind # "none" /\ imp.call.incremental_since # NoneInt)
    => KeysOf(imp.call.before.table) \subseteq KeysOf(imp.db.table)

\* An incremental import that wrote a row, into a catalog holding a part that
\* the snapshot does not list; the part is still in the catalog.
C37_Witness ==
    /\ imp.call.kind # "none"
    /\ imp.call.incremental_since # NoneInt
    /\ imp.db.table # imp.call.before.table
    /\ \E k \in KeysOf(imp.call.before.table) :
         /\ \A i \in 1..Len(imp.call.src) : LcscKey(imp.call.src[i].lcsc) # k
         /\ k \in KeysOf(imp.db.table)

(***************************************************************************)
(* Claims about the choice of the alternatives                             *)
(***************************************************************************)

\* The candidates of a call: every row of the catalog that the WHERE clause of
\* the call's search selects, the reference part left out.
AltCandidates ==
    LET part == ReferencePart[1]
    IN SelectSeq(alt.table,
                 LAMBDA r : /\ r.lcsc # alt.call.lcsc_number
                            /\ MatchesFilters(r, [category |-> part.subcategory,
                                                  package |-> part.package,
                                                  library_type |-> "",
                                                  manufacturer |-> <<>>,
                                                  in_stock |-> TRUE, limit |-> 0]))

\* Every row the search selects has the subcategory and the package of the
\* reference part.
CandidatesAreExact ==
    \A i \in 1..Len(AltCandidates) :
        /\ AltCandidates[i].subcategory = ReferencePart[1].subcategory
        /\ AltCandidates[i].package = ReferencePart[1].package

\* C38: suggest_alternatives(K, limit) returns the best min(limit, number of
\* candidates) candidates of the whole catalog under the ranking: as many as
\* that, and no candidate left out ranks strictly before a returned one.
\* Stated for the calls whose candidates all have K's subcategory and package.
C38_BestOfAllCandidates ==
    (alt.call.called /\ ReferencePart # <<>> /\ CandidatesAreExact)
    => /\ Len(alt.call.result)
            = (IF alt.call.limit < Len(AltCandidates) THEN alt.call.limit
               ELSE Len(AltCandidates))
       /\ \A i \in 1..Len(AltCandidates), j \in 1..Len(alt.call.result) :
            (\A k \in 1..Len(alt.call.result) :
                 alt.call.result[k].lcsc # AltCandidates[i].lcsc)
            => ~TupleLess(sort_key(AltCandidates[i]), sort_key(alt.call.result[j]))

(***************************************************************************)
(* Claims about auto_layout                                                *)
(***************************************************************************)

\* The schematic has net connectivity: a named net of its netlist has a member,
\* that is, a resolved pin of a component.
HasNetConnectivity(nets) ==
    \E i \in 1..Len(nets) :
        /\ nets[i].name # ""
        /\ \E k \in 1..Len(nets[i].connections) :
               /\ nets[i].connections[k].component # ""
               /\ nets[i].connections[k].pin \notin {"", "unknown"}

\* C39: auto_layout on a schematic that has net connectivity, called with
\* preserve_connectivity=false and allow_unsafe=false, returns success=false
\* with guard "connectivity_present" and leaves the file, and with it every
\* symbol position, as it was.
C39_GuardRefusesUnsafeLayout ==
    ( /\ sch.pc = "returned"
      /\ HasNetConnectivity(sch.call.original_text.nets)
      /\ ~sch.call.preserve_connectivity
      /\ ~sch.call.allow_unsafe )
    => /\ ~sch.call.result.success
       /\ sch.call.result.guard = "connectivity_present"
       /\ sch.file = sch.call.original_text

\* A layout of a connected schematic was asked for with both flags off and has
\* been refused.
C39_Witness ==
    /\ sch.pc = "returned"
    /\ HasNetConnectivity(sch.call.original_text.nets)
    /\ ~sch.call.preserve_connectivity
    /\ ~sch.call.allow_unsafe
    /\ sch.call.result.guard = "connectivity_present"
    /\ sch.file.positions = "placed"

\* The two memberships give every net the same members, a net that one of them
\* does not list having none.
SameMembership(before, after) ==
    \A net_name \in DOMAIN before \cup DOMAIN after :
        MembersOf(before, net_name) = MembersOf(after, net_name)

\* C40: auto_layout with preserve_connectivity=true on a schematic that has
\* connectivity either succeeds with the net membership after the layout
\* equal to the membership before it, connectivityPreserved=true and
\* rebuiltConnections the number of baseline net members, or returns
\* success=false with the file restored to its original text.
C40_PreservedOrRestored ==
    ( /\ sch.pc = "returned"
      /\ sch.call.preserve_connectivity
      /\ HasNetConnectivity(sch.call.original_text.nets) )
    => \/ /\ sch.call.result.success
          /\ sch.call.result.connectivityPreserved
          /\ sch.call.result.rebuiltConnections
                = SumMembers(extract_membership(sch.call.original_text.nets),
                             DOMAIN extract_membership(sch.call.original_text.nets))
          /\ SameMembership(extract_membership(sch.call.original_text.nets),
                            extract_membership(sch.file.nets))
       \/ /\ ~sch.call.result.success
          /\ sch.file = sch.call.original_text

====
